---- MODULE Spec2Model ----
(***************************************************************************)
(* A model of scripts/explore_messages.py: the message-corpus analysis     *)
(* engine (group_by_user, luhn_check, analyze and its detector blocks).    *)
(*                                                                         *)
(* Strings are sequences of characters.  A character is a one-letter TLA+  *)
(* string for the printable ASCII range, or a "U+XXXX" token for a         *)
(* character outside it.  A record (a Python dict) is a function from the  *)
(* field names it carries to strings, so an absent field is a name that is *)
(* not in its domain.                                                      *)
(***************************************************************************)
EXTENDS Integers, Sequences, FiniteSets, TLC

\* ------------------------------------------------------------------------
\* Characters

\* The printable ASCII range, in code-point order: Printable[i] has code i + 31.
\* The double quote, the backslash and the grave accent are written as tokens.
Printable ==
  << " ", "!", "U+0022", "#", "$", "%", "&", "'", "(", ")", "*", "+", ",", "-", ".", "/",
     "0", "1", "2", "3", "4", "5", "6", "7", "8", "9", ":", ";", "<", "=", ">", "?",
     "@", "A", "B", "C", "D", "E", "F", "G", "H", "I", "J", "K", "L", "M", "N", "O",
     "P", "Q", "R", "S", "T", "U", "V", "W", "X", "Y", "Z", "[", "U+005C", "]", "^", "_",
     "U+0060", "a", "b", "c", "d", "e", "f", "g", "h", "i", "j", "k", "l", "m", "n", "o",
     "p", "q", "r", "s", "t", "u", "v", "w", "x", "y", "z", "{", "|", "}", "~" >>

\* The characters outside ASCII that the corpora of the model use:
\* U+00E9 (e with acute accent), U+65E5 (a CJK ideograph), U+FFFD (the
\* replacement character).
NonAscii == {"U+00E9", "U+65E5", "U+FFFD"}

ReplacementChar == "U+FFFD"

AsciiChars == {Printable[i] : i \in 1..Len(Printable)}

Chars == AsciiChars \cup NonAscii

\* ord(ch)
Ord ==
  [c \in Chars |->
     IF c = "U+00E9" THEN 233
     ELSE IF c = "U+65E5" THEN 26085
     ELSE IF c = "U+FFFD" THEN 65533
     ELSE 31 + (CHOOSE i \in 1..Len(Printable) : Printable[i] = c)]

IsDigit(c) == Ord[c] >= 48 /\ Ord[c] <= 57

IsUpper(c) == Ord[c] >= 65 /\ Ord[c] <= 90

IsLower(c) == Ord[c] >= 97 /\ Ord[c] <= 122

IsAsciiAlpha(c) == IsUpper(c) \/ IsLower(c)

\* str.isspace(), on the characters of the model
IsSpace(c) == c = " "

\* str.isalnum() of one character
IsAlnum(c) == IsDigit(c) \/ IsAsciiAlpha(c) \/ c = "U+00E9" \/ c = "U+65E5"

\* \w of the re module (Unicode word characters)
IsWord(c) == IsAlnum(c) \/ c = "_"

\* str.lower() of one character
LowerChar(c) == IF IsUpper(c) THEN Printable[Ord[c] + 32 - 31] ELSE c

DigitVal(c) == Ord[c] - 48

\* ------------------------------------------------------------------------
\* Strings

Lower(s) == [i \in 1..Len(s) |-> LowerChar(s[i])]

\* s[a:b] of Python, with 0-based a (inclusive) and b (exclusive), clipped
Slice(s, a, b) ==
  LET lo == IF a < 0 THEN 0 ELSE a
      hi == IF b > Len(s) THEN Len(s) ELSE b
  IN IF hi <= lo THEN << >> ELSE SubSeq(s, lo + 1, hi)

\* a < b for two strings: Python's comparison by code points
StrLess(a, b) ==
  LET n == IF Len(a) < Len(b) THEN Len(a) ELSE Len(b)
      diff == {i \in 1..n : a[i] # b[i]}
  IN IF diff = {} THEN Len(a) < Len(b)
     ELSE LET k == CHOOSE i \in diff : \A j \in diff : i <= j
          IN Ord[a[k]] < Ord[b[k]]

\* whether needle occurs in hay (the `in` operator on strings)
Contains(hay, needle) ==
  \E i \in 0..(Len(hay) - Len(needle)) :
     \A j \in 1..Len(needle) : hay[i + j] = needle[j]

AllDigits(s) == \A i \in 1..Len(s) : IsDigit(s[i])

\* dict(items): the entries as a dict held in memory
AsDict(items) == items @@ << >>

\* list(items): the items as a list held in memory
AsList(items) == SubSeq(items, 1, Len(items))

\* sum(xs), adding the two halves
RECURSIVE SumSeq(_)
SumSeq(xs) ==
  IF Len(xs) = 0 THEN 0
  ELSE IF Len(xs) = 1 THEN xs[1]
  ELSE LET h == Len(xs) \div 2
       IN SumSeq(SubSeq(xs, 1, h)) + SumSeq(SubSeq(xs, h + 1, Len(xs)))

\* the lists of a list of lists, chained in order
RECURSIVE Concat(_)
Concat(lists) ==
  IF Len(lists) = 0 THEN << >>
  ELSE IF Len(lists) = 1 THEN lists[1]
  ELSE LET h == Len(lists) \div 2
       IN Concat(SubSeq(lists, 1, h)) \o Concat(SubSeq(lists, h + 1, Len(lists)))

\* int(s) of a string of digits
RECURSIVE Num(_)
Num(s) == IF s = << >> THEN 0 ELSE 10 * Num(SubSeq(s, 1, Len(s) - 1)) + DigitVal(s[Len(s)])

\* ------------------------------------------------------------------------
\* Dates and instants
\*
\* A datetime is [ok, aware, d, s, year]: d is the proleptic Gregorian ordinal
\* of its day and s the second of that day, in UTC when the datetime carries
\* an offset (aware) and in its own wall-clock otherwise; year is the year
\* field as written (datetime.year).  ok = FALSE is a parse failure.

IsLeap(y) == y % 4 = 0 /\ (y % 100 # 0 \/ y % 400 = 0)

DaysInMonth(y, m) ==
  IF m = 2 THEN (IF IsLeap(y) THEN 29 ELSE 28)
  ELSE IF m \in {4, 6, 9, 11} THEN 30 ELSE 31

DaysBeforeYear(y) == (y - 1) * 365 + (y - 1) \div 4 - (y - 1) \div 100 + (y - 1) \div 400

RECURSIVE DaysBeforeMonth(_, _)
DaysBeforeMonth(y, m) ==
  IF m <= 1 THEN 0 ELSE DaysBeforeMonth(y, m - 1) + DaysInMonth(y, m - 1)

\* date.toordinal()
Ordinal(y, m, d) == DaysBeforeYear(y) + DaysBeforeMonth(y, m) + d

ValidDate(y, m, d) ==
  /\ y >= 1 /\ y <= 9999
  /\ m >= 1 /\ m <= 12
  /\ d >= 1 /\ d <= DaysInMonth(y, m)

NoDatetime == [ok |-> FALSE, aware |-> FALSE, d |-> 0, s |-> 0, year |-> 0]

\* the datetime of a day and a (possibly negative or overflowing) second of it
MkDatetime(aware, day, sec, year) ==
  LET q == IF sec >= 0 THEN sec \div 86400 ELSE -((86399 - sec) \div 86400)
  IN [ok |-> TRUE, aware |-> aware, d |-> day + q, s |-> sec - q * 86400, year |-> year]

\* a < b for two datetimes of the same awareness
DtLess(a, b) == a.d < b.d \/ (a.d = b.d /\ a.s < b.s)

\* (a - b).total_seconds()
DtDiffSeconds(a, b) == (a.d - b.d) * 86400 + (a.s - b.s)

\* ts.replace("Z", "+00:00")
ReplaceZ(s) ==
  Concat([i \in 1..Len(s) |->
            IF s[i] = "Z" THEN << "+", "0", "0", ":", "0", "0" >> ELSE << s[i] >>])

\* str.find(c) + 1: the 1-based position of the first c, 0 when there is none
FindChar(s, c) ==
  IF \E i \in 1..Len(s) : s[i] = c
  THEN CHOOSE i \in 1..Len(s) : s[i] = c /\ \A j \in 1..(i - 1) : s[j] # c
  ELSE 0

\* HH[:MM[:SS]] as [ok, h, m, s] (the time and the offset of an ISO string)
ParseHHMMSS(t) ==
  LET two(i) == Num(SubSeq(t, i, i + 1))
      okTwo(i) == IsDigit(t[i]) /\ IsDigit(t[i + 1])
      bad == [ok |-> FALSE, h |-> 0, m |-> 0, s |-> 0]
  IN IF Len(t) = 2 /\ okTwo(1)
       THEN [ok |-> TRUE, h |-> two(1), m |-> 0, s |-> 0]
     ELSE IF Len(t) = 5 /\ okTwo(1) /\ t[3] = ":" /\ okTwo(4)
       THEN [ok |-> TRUE, h |-> two(1), m |-> two(4), s |-> 0]
     ELSE IF Len(t) = 8 /\ okTwo(1) /\ t[3] = ":" /\ okTwo(4) /\ t[6] = ":" /\ okTwo(7)
       THEN [ok |-> TRUE, h |-> two(1), m |-> two(4), s |-> two(7)]
     ELSE bad

\* the position in the time part of the sign that starts the offset ("-" is
\* looked for first), 0 when there is none
TzPos(tstr) ==
  IF FindChar(tstr, "-") > 0 THEN FindChar(tstr, "-") ELSE FindChar(tstr, "+")

\* the offset in seconds east of UTC
OffsetSeconds(sign, tz) ==
  (IF sign = "-" THEN -1 ELSE 1) * (tz.h * 3600 + tz.m * 60 + tz.s)

\* the datetime of a day, a time of day tm and an offset tz written as tzstr
IsoWithOffset(day, y, tm, tz, tzstr, sign) ==
  IF ~tz.ok \/ Len(tzstr) = 2 THEN NoDatetime
  ELSE IF OffsetSeconds(sign, tz) >= 86400 \/ OffsetSeconds(sign, tz) <= -86400 THEN NoDatetime
  ELSE MkDatetime(TRUE, day, tm.h * 3600 + tm.m * 60 + tm.s - OffsetSeconds(sign, tz), y)

\* the datetime of a day and the time part tstr, whose offset starts at tzpos
IsoWithTime(day, y, tstr, tzpos, tm) ==
  IF ~tm.ok \/ tm.h > 23 \/ tm.m > 59 \/ tm.s > 59 THEN NoDatetime
  ELSE IF tzpos = 0 THEN MkDatetime(FALSE, day, tm.h * 3600 + tm.m * 60 + tm.s, y)
  ELSE IsoWithOffset(day, y, tm, ParseHHMMSS(SubSeq(tstr, tzpos + 1, Len(tstr))),
                     SubSeq(tstr, tzpos + 1, Len(tstr)), tstr[tzpos])

IsoOfFields(x, y, mo, dd, tstr, tzpos) ==
  IF ~ValidDate(y, mo, dd) THEN NoDatetime
  ELSE IF Len(x) = 10 THEN MkDatetime(FALSE, Ordinal(y, mo, dd), 0, y)
  ELSE IF Len(x) = 11 THEN NoDatetime
  ELSE IsoWithTime(Ordinal(y, mo, dd), y, tstr, tzpos,
                   ParseHHMMSS(IF tzpos > 0 THEN SubSeq(tstr, 1, tzpos - 1) ELSE tstr))

\* datetime.fromisoformat(x) for YYYY-MM-DD[*HH[:MM[:SS]][(+|-)HH:MM[:SS]]]
\* (no fractional seconds: the corpora of the model carry none)
FromIsoFormat(x) ==
  IF ~(/\ Len(x) >= 10
       /\ AllDigits(SubSeq(x, 1, 4)) /\ x[5] = "-"
       /\ AllDigits(SubSeq(x, 6, 7)) /\ x[8] = "-"
       /\ AllDigits(SubSeq(x, 9, 10)))
  THEN NoDatetime
  ELSE IsoOfFields(x, Num(SubSeq(x, 1, 4)), Num(SubSeq(x, 6, 7)), Num(SubSeq(x, 9, 10)),
                   SubSeq(x, 12, Len(x)), TzPos(SubSeq(x, 12, Len(x))))

\* datetime.fromisoformat(ts.replace("Z", "+00:00")) inside try/except
ParseTimestamp(ts) == FromIsoFormat(ReplaceZ(ts))

\* ------------------------------------------------------------------------
\* Records

\* None, the value of m.get(f) for an absent field: a one-token sequence that
\* is no string
None == << "None" >>

\* m.get(f, default)
Get(m, f, default) == IF f \in DOMAIN m THEN m[f] ELSE default

\* m.get(f)
GetOrNone(m, f) == Get(m, f, None)

\* str(x): the text "None" for None, x itself for a string
Str(x) == IF x = None THEN << "N", "o", "n", "e" >> ELSE x

Fields == {"id", "user_id", "user_name", "timestamp", "message"}

\* ------------------------------------------------------------------------
\* The texts the corpora of the model are built from

\* "m1"
IdM1 ==
  << "m", "1" >>

\* "m2"
IdM2 ==
  << "m", "2" >>

\* "m3"
IdM3 ==
  << "m", "3" >>

\* "m5"
IdM5 ==
  << "m", "5" >>

\* "m6"
IdM6 ==
  << "m", "6" >>

\* "m8"
IdM8 ==
  << "m", "8" >>

\* "m9"
IdM9 ==
  << "m", "9" >>

\* "u1"
UidU1 ==
  << "u", "1" >>

\* "u2"
UidU2 ==
  << "u", "2" >>

\* a user_id of UUID shape: "0123456789abcdef0123456789ABCDEF"
UidHex ==
  << "0", "1", "2", "3", "4", "5", "6", "7", "8", "9", "a", "b", "c", "d", "e", "f",
     "0", "1", "2", "3", "4", "5", "6", "7", "8", "9", "A", "B", "C", "D", "E", "F" >>

\* "Alex Kim"
NameAlexKim ==
  << "A", "l", "e", "x", " ", "K", "i", "m" >>

\* "Alex K"
NameAlexK ==
  << "A", "l", "e", "x", " ", "K" >>

\* "Al?x", the ? being the replacement character
NameBad ==
  << "A", "l", "U+FFFD", "x" >>

\* "elodie Roy" with an acute accent on the first e
NameElodie ==
  << "U+00E9", "l", "o", "d", "i", "e", " ", "R", "o", "y" >>

\* "Bob"
NameBob ==
  << "B", "o", "b" >>

\* "2024-01-01T00:30:00+02:00": 2023-12-31 22:30 UTC
TsOffset ==
  << "2", "0", "2", "4", "-", "0", "1", "-", "0", "1", "T", "0", "0", ":", "3", "0",
     ":", "0", "0", "+", "0", "2", ":", "0", "0" >>

\* "2023-12-31T23:00:00Z"
TsZulu ==
  << "2", "0", "2", "3", "-", "1", "2", "-", "3", "1", "T", "2", "3", ":", "0", "0",
     ":", "0", "0", "Z" >>

\* "2024-01-01T00:00:00": parses, carries no offset
TsNaive ==
  << "2", "0", "2", "4", "-", "0", "1", "-", "0", "1", "T", "0", "0", ":", "0", "0",
     ":", "0", "0" >>

\* "2024-01-01T12:00:00Z"
TsNoon ==
  << "2", "0", "2", "4", "-", "0", "1", "-", "0", "1", "T", "1", "2", ":", "0", "0",
     ":", "0", "0", "Z" >>

\* "2005-06-01T00:00:00Z": before 2010
TsOld ==
  << "2", "0", "0", "5", "-", "0", "6", "-", "0", "1", "T", "0", "0", ":", "0", "0",
     ":", "0", "0", "Z" >>

\* "2027-12-01T00:00:00Z": more than 365 days after the first clock value, not after the last
TsLate ==
  << "2", "0", "2", "7", "-", "1", "2", "-", "0", "1", "T", "0", "0", ":", "0", "0",
     ":", "0", "0", "Z" >>

\* "not-a-date"
TsGarbage ==
  << "n", "o", "t", "-", "a", "-", "d", "a", "t", "e" >>

\* "Hello there"
MsgHello ==
  << "H", "e", "l", "l", "o", " ", "t", "h", "e", "r", "e" >>

\* "hello   there"
MsgHelloSpaced ==
  << "h", "e", "l", "l", "o", " ", " ", " ", "t", "h", "e", "r", "e" >>

\* "Hello, there!"
MsgHelloPunct ==
  << "H", "e", "l", "l", "o", ",", " ", "t", "h", "e", "r", "e", "!" >>

\* "bad ? text a@b.co", the ? being the replacement character
MsgBad ==
  << "b", "a", "d", " ", "U+FFFD", " ", "t", "e", "x", "t", " ", "a", "@", "b", ".",
     "c", "o" >>

\* "I prefer aisle. Paris 2024-03-05, call +1 555 123 4567"
MsgAisle ==
  << "I", " ", "p", "r", "e", "f", "e", "r", " ", "a", "i", "s", "l", "e", ".", " ",
     "P", "a", "r", "i", "s", " ", "2", "0", "2", "4", "-", "0", "3", "-", "0", "5",
     ",", " ", "c", "a", "l", "l", " ", "+", "1", " ", "5", "5", "5", " ", "1", "2",
     "3", " ", "4", "5", "6", "7" >>

\* "prefer window in Rome 2024-03-05 card 4111 1111 1111 1111"
MsgWindow ==
  << "p", "r", "e", "f", "e", "r", " ", "w", "i", "n", "d", "o", "w", " ", "i", "n",
     " ", "R", "o", "m", "e", " ", "2", "0", "2", "4", "-", "0", "3", "-", "0", "5",
     " ", "c", "a", "r", "d", " ", "4", "1", "1", "1", " ", "1", "1", "1", "1", " ",
     "1", "1", "1", "1", " ", "1", "1", "1", "1" >>

\* three CJK ideographs, then " the rome march 5"
MsgCjk ==
  << "U+65E5", "U+65E5", "U+65E5", " ", "t", "h", "e", " ", "r", "o", "m", "e", " ",
     "m", "a", "r", "c", "h", " ", "5" >>

\* "A@B.CO +1 555 123 4567 paris March 5th, 2024"
MsgReuse ==
  << "A", "@", "B", ".", "C", "O", " ", "+", "1", " ", "5", "5", "5", " ", "1", "2",
     "3", " ", "4", "5", "6", "7", " ", "p", "a", "r", "i", "s", " ", "M", "a", "r",
     "c", "h", " ", "5", "t", "h", ",", " ", "2", "0", "2", "4" >>

\* ------------------------------------------------------------------------
\* The records and the corpora of the model

Rec(id, uid, name, ts, msg) ==
  [id |-> id, user_id |-> uid, user_name |-> name, timestamp |-> ts, message |-> msg]

\* the records of the model, in the order of the longest corpus
PoolList ==
  << Rec(IdM1, UidU1, NameAlexKim, TsOffset, MsgHello),
     Rec(IdM2, UidU1, NameAlexK, TsZulu, MsgHelloSpaced),
     Rec(IdM3, UidU2, NameAlexKim, TsNaive, MsgHelloPunct),
     Rec(IdM1, UidU2, NameBad, << >>, MsgBad),
     Rec(IdM5, UidHex, NameElodie, TsOld, MsgAisle),
     Rec(IdM6, UidHex, NameElodie, TsLate, MsgWindow),
     Rec(IdM8, << >>, << >>, TsNoon, << >>),
     Rec(IdM9, UidU2, NameBob, TsGarbage, MsgReuse),
     [message |-> MsgCjk],
     [user_name |-> NameBob, message |-> MsgHello] >>

RecordPool == {PoolList[i] : i \in 1..Len(PoolList)}

\* the records of PoolList whose timestamp, if it parses, carries an offset
AwareList == SelectSeq(PoolList, LAMBDA r : Get(r, "timestamp", << >>) # TsNaive)

Reversed(items) == [i \in 1..Len(items) |-> items[Len(items) + 1 - i]]

\* the long corpora of the model
LongCorpora == {PoolList, AwareList, AsList(Reversed(AwareList))}

\* the longest corpus of the model
MaxMsgs == 2

RECURSIVE SeqsUpTo(_, _)
SeqsUpTo(S, n) ==
  IF n = 0 THEN {<< >>}
  ELSE LET shorter == SeqsUpTo(S, n - 1)
       IN shorter \cup {Append(q, x) : q \in {t \in shorter : Len(t) = n - 1}, x \in S}

Corpora == SeqsUpTo(RecordPool, MaxMsgs) \cup LongCorpora

\* the wall-clock values of the model (midnight UTC of a day), in increasing order
Clocks ==
  << [y |-> 2026, m |-> 11, d |-> 1],
     [y |-> 2026, m |-> 12, d |-> 15],
     [y |-> 2027, m |-> 1, d |-> 31] >>

\* datetime.now(timezone.utc) when the wall clock reads c
NowUtc(c) == MkDatetime(TRUE, Ordinal(c.y, c.m, c.d), 0, c.y)

\* ------------------------------------------------------------------------
\* group_by_user
\*
\* The defaultdict is a sequence of [uid, arr] entries in insertion order
\* (a Python dict iterates in insertion order).

\* the distinct keys in the order a dict first receives them
FirstSeen(keys) ==
  LET firsts == SelectSeq([i \in 1..Len(keys) |-> i],
                          LAMBDA i : \A j \in 1..(i - 1) : keys[j] # keys[i])
  IN [p \in 1..Len(firsts) |-> keys[firsts[p]]]

\* sorted(items, key=...) / list.sort(key=...): a stable sort by the strict
\* order Less; the element at i goes after those that are less and after the
\* equal ones that precede it
StableSort(items, Less(_, _)) ==
  LET n == Len(items)
      pos == AsList([i \in 1..n |->
               Cardinality({j \in 1..n : \/ Less(items[j], items[i])
                                         \/ (~Less(items[i], items[j]) /\ j < i)}) + 1])
  IN [p \in 1..n |-> items[CHOOSE i \in 1..n : pos[i] = p]]

\* m["user_id"] as group_by_user reads it
UserIdKey(m) == Get(m, "user_id", << >>)

\* the sort key of group_by_user
TimestampKey(m) == Get(m, "timestamp", << >>)

\* a sort key that is the parsed instant instead of the raw string
EarlierInstant(a, b) ==
  DtLess(ParseTimestamp(TimestampKey(a)), ParseTimestamp(TimestampKey(b)))

EarlierTimestampKey(a, b) == StrLess(TimestampKey(a), TimestampKey(b))

\* a grouping that skips the records whose user_id is empty or absent
GroupTruthyUsers(msgs) ==
  LET uids == SelectSeq(FirstSeen([i \in 1..Len(msgs) |-> UserIdKey(msgs[i])]),
                        LAMBDA u : u # << >>)
  IN AsList([p \in 1..Len(uids) |->
       [uid |-> uids[p],
        arr |-> AsList(StableSort(SelectSeq(msgs, LAMBDA m : UserIdKey(m) = uids[p]),
                                  EarlierTimestampKey))]])

\* by_user[m.get("user_id", "")].append(m) for every m, then arr.sort(key=...)
\* for every group
group_by_user(msgs) ==
  LET uids == FirstSeen([i \in 1..Len(msgs) |-> UserIdKey(msgs[i])])
  IN AsList([p \in 1..Len(uids) |->
       [uid |-> uids[p],
        arr |-> AsList(StableSort(SelectSeq(msgs, LAMBDA m : UserIdKey(m) = uids[p]),
                                  EarlierTimestampKey))]])

\* ------------------------------------------------------------------------
\* luhn_check

Digits(s) == SelectSeq(s, IsDigit)

\* a doubled digit above 9 set to 9 instead of lowered by 9
LuhnTermClamped(d, i, parity) ==
  IF i % 2 = parity THEN (IF 2 * d > 9 THEN 9 ELSE 2 * d) ELSE d

\* what the digit at the 0-based index i adds to the checksum
LuhnTerm(d, i, parity) ==
  IF i % 2 = parity THEN (IF 2 * d > 9 THEN 2 * d - 9 ELSE 2 * d) ELSE d

\* the checksum: the loop over enumerate(digits)
LuhnSum(digits, parity) ==
  SumSeq([k \in 1..Len(digits) |-> LuhnTerm(DigitVal(digits[k]), k - 1, parity)])

\* a parity that ignores the number of digits
LuhnParityEven(n) == 0

LuhnParity(n) == (n - 2) % 2

luhn_check(num) ==
  LET digits == Digits(num)
  IN IF Len(digits) < 13 THEN FALSE
     ELSE LuhnSum(digits, LuhnParity(Len(digits))) % 10 = 0

\* ------------------------------------------------------------------------
\* Python collections

\* sorted(S) of a set of strings
SortedStrings(S) ==
  [p \in 1..Cardinality(S) |->
     CHOOSE x \in S : Cardinality({y \in S : StrLess(y, x)}) = p - 1]

\* a slice that was left out
TakeAll(items, n) == items

\* items[:n]
Take(items, n) == IF Len(items) <= n THEN items ELSE SubSeq(items, 1, n)

\* A dict is a sequence of [k, v] entries in insertion order.

\* defaultdict(set) after d[e.k].update(e.xs) for every e of pairs, in order
UnionDict(pairs) ==
  LET ps == AsList(pairs)
      keys == AsList(FirstSeen(AsList([i \in 1..Len(ps) |-> ps[i].k])))
  IN AsList([p \in 1..Len(keys) |->
       [k |-> keys[p],
        v |-> UNION {ps[i].xs : i \in {j \in 1..Len(ps) : ps[j].k = keys[p]}}]])

\* defaultdict(set) after d[e.k].add(e.x) for every e of pairs, in order
SetDict(pairs) == UnionDict([i \in 1..Len(pairs) |-> [k |-> pairs[i].k, xs |-> {pairs[i].x}]])

\* a dict of counts after d[k] = d.get(k, 0) + 1 for every k of keys, in order
CountDict(keys) ==
  LET ks == AsList(keys)
      first == AsList(FirstSeen(ks))
  IN AsList([p \in 1..Len(first) |->
       [k |-> first[p], v |-> Cardinality({i \in 1..Len(ks) : ks[i] = first[p]})]])

\* [x for x in items if Keep(x)]
Filter(items, Keep(_)) == SelectSeq(items, Keep)

SeqRange(items) == {items[i] : i \in 1..Len(items)}


\* ------------------------------------------------------------------------
\* Normalizer

\* NFKD, then encode("ascii", "ignore"): an ASCII character stays, the accented
\* e loses its accent, any other character is dropped
_strip_accents(s) ==
  LET kept == SelectSeq(s, LAMBDA c : c \in AsciiChars \/ c = "U+00E9")
  IN [i \in 1..Len(kept) |-> IF kept[i] = "U+00E9" THEN "e" ELSE kept[i]]

\* str.split(): the maximal runs of non-whitespace characters
Split(s) ==
  LET n == Len(s)
      starts == SelectSeq([i \in 1..n |-> i],
                          LAMBDA i : ~IsSpace(s[i]) /\ (i = 1 \/ IsSpace(s[i - 1])))
      last(i) == CHOOSE j \in i..n :
                   /\ \A k \in i..j : ~IsSpace(s[k])
                   /\ (j = n \/ IsSpace(s[j + 1]))
  IN [w \in 1..Len(starts) |-> SubSeq(s, starts[w], last(starts[w]))]

\* " ".join(words)
Join(words) ==
  Concat([w \in 1..Len(words) |-> IF w = 1 THEN words[w] ELSE << " " >> \o words[w]])

\* the text with nothing replaced
SpacedKeepingAll(low) == low

\* ch if (ch.isalnum() or ch.isspace()) else " ", for each ch
Spaced(low) ==
  AsList([i \in 1..Len(low) |-> IF IsAlnum(low[i]) \/ IsSpace(low[i]) THEN low[i] ELSE " "])

\* s or ""
OrEmpty(s) == IF s = None THEN << >> ELSE s

_norm(s) == Join(Split(Spaced(AsList(Lower(_strip_accents(OrEmpty(s)))))))

\* the norm_text of analyze
norm_text(s) == Join(Split(Lower(s)))

\* ------------------------------------------------------------------------
\* The regular expressions of analyze, each as the matcher the re module
\* runs: Match...End(s, i) is the (inclusive) end of the match that starts at
\* the 1-based position i, and 0 when none starts there.

\* whether s has a word character at position k
WordAt(s, k) == k >= 1 /\ k <= Len(s) /\ IsWord(s[k])

\* \b between the positions k and k + 1
Boundary(s, k) == WordAt(s, k) # WordAt(s, k + 1)

\* the last position of the run of characters in class In that starts at i
\* (i - 1 when s[i] is not in the class)
RunEnd(s, i, In(_)) ==
  LET out == {k \in i..Len(s) : ~In(s[k])}
  IN IF out # {} THEN (CHOOSE k \in out : \A j \in out : k <= j) - 1
     ELSE IF i > Len(s) THEN i - 1 ELSE Len(s)

MaxOf(S) == CHOOSE x \in S : \A y \in S : y <= x

MinOf(S) == CHOOSE x \in S : \A y \in S : x <= y

\* re.findall / finditer: the non-overlapping matches, leftmost first, as
\* [from, to] positions; MatchEnd(s, i) gives the end of the match at i
FindAll(s, MatchEnd(_, _)) ==
  LET from[pos \in 1..(Len(s) + 1)] ==
        LET starts == {i \in pos..Len(s) : MatchEnd(s, i) > 0}
        IN IF starts = {} THEN << >>
           ELSE LET i == MinOf(starts)
                    e == MatchEnd(s, i)
                IN << [from |-> i, to |-> e] >> \o from[e + 1]
  IN from[1]

\* the text of a match
MatchText(s, m) == SubSeq(s, m.from, m.to)

\* re.search
Search(s, MatchEnd(_, _)) == \E i \in 1..Len(s) : MatchEnd(s, i) > 0

\* [\d\s\-()]
PhoneClass(c) == IsDigit(c) \/ IsSpace(c) \/ c \in {"-", "(", ")"}

\* phone_re: \b(?:\+?\d[\d\s\-()]{7,}\d)\b
PhoneMatchEnd(s, i) ==
  LET p == IF s[i] = "+" THEN i + 1 ELSE i
      r == RunEnd(s, p + 1, PhoneClass)
      ends == {e \in (p + 8)..r : IsDigit(s[e]) /\ Boundary(s, e)}
  IN IF Boundary(s, i - 1) /\ p <= Len(s) /\ IsDigit(s[p]) /\ ends # {}
     THEN MaxOf(ends) ELSE 0

\* [A-Za-z0-9._%+-]
EmailLocalClass(c) == IsDigit(c) \/ IsAsciiAlpha(c) \/ c \in {".", "_", "%", "+", "-"}

\* [A-Za-z0-9.-]
EmailDomainClass(c) == IsDigit(c) \/ IsAsciiAlpha(c) \/ c \in {".", "-"}

\* email_re: [A-Za-z0-9._%+-]+@[A-Za-z0-9.-]+\.[A-Za-z]{2,}
EmailMatchEnd(s, i) ==
  LET a == RunEnd(s, i, EmailLocalClass) + 1
      r == RunEnd(s, a + 1, EmailDomainClass)
      dots == {d \in (a + 2)..(r - 2) :
                 s[d] = "." /\ IsAsciiAlpha(s[d + 1]) /\ IsAsciiAlpha(s[d + 2])}
  IN IF a > i /\ a <= Len(s) /\ s[a] = "@" /\ dots # {}
     THEN RunEnd(s, MaxOf(dots) + 1, IsAsciiAlpha) ELSE 0

CcSep(c) == c \in {" ", "-"}

\* the position after n more repetitions of \d[ -]? from position q, the
\* repetition stopping early where no digit follows: [pos, count]
RECURSIVE CcRepeat(_, _, _, _)
CcRepeat(s, q, count, most) ==
  IF count = most \/ q > Len(s) \/ ~IsDigit(s[q]) THEN [pos |-> q, count |-> count]
  ELSE CcRepeat(s, IF q + 1 <= Len(s) /\ CcSep(s[q + 1]) THEN q + 2 ELSE q + 1,
                count + 1, most)

CcMinDigits == 13

CcMaxDigits == 19

\* cc_re: (?:\d[ -]?){13,19}
CcMatchEnd(s, i) ==
  LET rep == CcRepeat(s, i, 0, CcMaxDigits)
  IN IF rep.count >= CcMinDigits THEN rep.pos - 1 ELSE 0

UuidMinLen == 32

UuidMaxLen == 36

IsHex(c) == IsDigit(c) \/ c \in {"a", "b", "c", "d", "e", "f", "A", "B", "C", "D", "E", "F"}

\* uuid_re.match: ^[0-9a-fA-F-]{32,36}$
UuidMatch(s) ==
  /\ Len(s) >= UuidMinLen /\ Len(s) <= UuidMaxLen
  /\ \A i \in 1..Len(s) : IsHex(s[i]) \/ s[i] = "-"

DigitsAt(s, i, n) == i + n - 1 <= Len(s) /\ \A k \in i..(i + n - 1) : IsDigit(s[k])

\* date_patterns[0]: \b\d{4}-\d{2}-\d{2}\b
IsoDateMatchEnd(s, i) ==
  IF /\ Boundary(s, i - 1)
     /\ DigitsAt(s, i, 4) /\ i + 9 <= Len(s) /\ s[i + 4] = "-"
     /\ DigitsAt(s, i + 5, 2) /\ s[i + 7] = "-"
     /\ DigitsAt(s, i + 8, 2) /\ Boundary(s, i + 9)
  THEN i + 9 ELSE 0

\* \d{1,2} followed by "/": the position of the "/" (0 when there is none)
OneOrTwoThenSlash(s, i) ==
  IF DigitsAt(s, i, 2) /\ i + 2 <= Len(s) /\ s[i + 2] = "/" THEN i + 2
  ELSE IF DigitsAt(s, i, 1) /\ i + 1 <= Len(s) /\ s[i + 1] = "/" THEN i + 1
  ELSE 0

\* date_patterns[1]: \b\d{1,2}/\d{1,2}/\d{2,4}\b
SlashDateMatchEnd(s, i) ==
  LET s1 == OneOrTwoThenSlash(s, i)
      s2 == IF s1 > 0 THEN OneOrTwoThenSlash(s, s1 + 1) ELSE 0
      ends == IF s2 = 0 THEN {}
              ELSE {e \in (s2 + 2)..(s2 + 4) : DigitsAt(s, s2 + 1, e - s2) /\ Boundary(s, e)}
  IN IF Boundary(s, i - 1) /\ ends # {} THEN MaxOf(ends) ELSE 0

\* the month names of date_patterns[2], in calendar order
MonthNames ==
  << << "j", "a", "n", "u", "a", "r", "y" >>,
     << "f", "e", "b", "r", "u", "a", "r", "y" >>,
     << "m", "a", "r", "c", "h" >>,
     << "a", "p", "r", "i", "l" >>,
     << "m", "a", "y" >>,
     << "j", "u", "n", "e" >>,
     << "j", "u", "l", "y" >>,
     << "a", "u", "g", "u", "s", "t" >>,
     << "s", "e", "p", "t", "e", "m", "b", "e", "r" >>,
     << "o", "c", "t", "o", "b", "e", "r" >>,
     << "n", "o", "v", "e", "m", "b", "e", "r" >>,
     << "d", "e", "c", "e", "m", "b", "e", "r" >> >>

\* whether s carries word (matched ignoring case) from position i
StartsWithAt(s, i, word) ==
  /\ i + Len(word) - 1 <= Len(s)
  /\ \A j \in 1..Len(word) : LowerChar(s[i + j - 1]) = word[j]

\* the month (1..12) whose name starts at i, 0 when none does
MonthAt(s, i) ==
  IF \E k \in 1..12 : StartsWithAt(s, i, MonthNames[k])
  THEN CHOOSE k \in 1..12 : StartsWithAt(s, i, MonthNames[k])
  ELSE 0

\* (?:st|nd|rd|th) at position q
OrdinalSuffixAt(s, q) ==
  \E w \in {<< "s", "t" >>, << "n", "d" >>, << "r", "d" >>, << "t", "h" >>} :
     StartsWithAt(s, q, w)

\* (?:,\s*\d{4}) from position q: the position of its last digit, 0 when absent
YearTailEnd(s, q) ==
  IF q <= Len(s) /\ s[q] = ","
  THEN LET y == RunEnd(s, q + 1, IsSpace) + 1
       IN IF DigitsAt(s, y, 4) THEN y + 3 ELSE 0
  ELSE 0

\* date_patterns[2]: \b(january|...|december)\s+\d{1,2}(?:st|nd|rd|th)?(?:,\s*\d{4})?\b
\* with re.IGNORECASE; the alternatives are tried longest first, as the
\* greedy quantifiers do
MonthDateMatchEnd(s, i) ==
  LET k == MonthAt(s, i)
      q == i + (IF k > 0 THEN Len(MonthNames[k]) ELSE 0)
      n == RunEnd(s, q, IsSpace) + 1
      afterDay(nd) == n + nd
      afterSuffix(nd, suf) == afterDay(nd) + (IF suf THEN 2 ELSE 0)
      end(nd, suf, yr) ==
        IF ~DigitsAt(s, n, nd) THEN 0
        ELSE IF suf /\ ~OrdinalSuffixAt(s, afterDay(nd)) THEN 0
        ELSE IF yr THEN YearTailEnd(s, afterSuffix(nd, suf))
        ELSE afterSuffix(nd, suf) - 1
      tries == << end(2, TRUE, TRUE), end(2, TRUE, FALSE), end(2, FALSE, TRUE),
                  end(2, FALSE, FALSE), end(1, TRUE, TRUE), end(1, TRUE, FALSE),
                  end(1, FALSE, TRUE), end(1, FALSE, FALSE) >>
      good == {t \in 1..8 : tries[t] > 0 /\ Boundary(s, tries[t])}
  IN IF Boundary(s, i - 1) /\ k > 0 /\ n > q /\ good # {}
     THEN tries[MinOf(good)] ELSE 0

\* ------------------------------------------------------------------------
\* extract_cities and extract_dates

city_list ==
  { << "n", "e", "w", " ", "y", "o", "r", "k" >>,
    << "n", "y", "c" >>,
    << "p", "a", "r", "i", "s" >>,
    << "l", "o", "n", "d", "o", "n" >>,
    << "t", "o", "k", "y", "o" >>,
    << "m", "i", "l", "a", "n" >>,
    << "m", "o", "n", "a", "c", "o" >>,
    << "b", "a", "n", "g", "k", "o", "k" >>,
    << "s", "i", "n", "g", "a", "p", "o", "r", "e" >>,
    << "r", "o", "m", "e" >>,
    << "b", "e", "r", "l", "i", "n" >>,
    << "b", "a", "r", "c", "e", "l", "o", "n", "a" >>,
    << "d", "u", "b", "a", "i" >>,
    << "s", "y", "d", "n", "e", "y" >>,
    << "l", "o", "s", " ", "a", "n", "g", "e", "l", "e", "s" >>,
    << "s", "a", "n", " ", "f", "r", "a", "n", "c", "i", "s", "c", "o" >>,
    << "s", "e", "r", "e", "n", "g", "e", "t", "i" >>,
    << "m", "o", "n", "t", "e", " ", "c", "a", "r", "l", "o" >>,
    << "v", "e", "n", "i", "c", "e" >>,
    << "p", "r", "a", "g", "u", "e" >>,
    << "v", "i", "e", "n", "n", "a" >>,
    << "a", "m", "s", "t", "e", "r", "d", "a", "m" >>,
    << "s", "e", "o", "u", "l" >>,
    << "h", "o", "n", "g", " ", "k", "o", "n", "g" >> }

\* extract_cities: the gazetteer names found in the normalized text (the order
\* of the hits is the set's iteration order; the caller puts them in a set)
extract_cities(text) == {c \in city_list : Contains(_norm(text), c)}

DigitChar(n) == Printable[n + 17]

\* date.isoformat(): YYYY-MM-DD
IsoFormat(y, m, d) ==
  << DigitChar(y \div 1000), DigitChar((y \div 100) % 10), DigitChar((y \div 10) % 10),
     DigitChar(y % 10), "-", DigitChar(m \div 10), DigitChar(m % 10), "-",
     DigitChar(d \div 10), DigitChar(d % 10) >>

NoDate == [ok |-> FALSE, y |-> 0, m |-> 0, d |-> 0]

MkDate(y, m, d) == IF ValidDate(y, m, d) THEN [ok |-> TRUE, y |-> y, m |-> m, d |-> d] ELSE NoDate

\* dateutil's two-digit year: the year of the current century, moved a century
\* when it is 50 years or more away from the current year
ConvertYear(yy, today) ==
  LET y == yy + (today.y \div 100) * 100
  IN IF y >= today.y + 50 THEN y - 100
     ELSE IF y < today.y - 50 THEN y + 100
     ELSE y

\* date_parser.parse(piece, fuzzy=True) of a YYYY-MM-DD match
ParseIsoPiece(piece) ==
  MkDate(Num(SubSeq(piece, 1, 4)), Num(SubSeq(piece, 6, 7)), Num(SubSeq(piece, 9, 10)))

\* date_parser.parse(piece, fuzzy=True) of an a/b/c match: year first when
\* a > 31, day first when a > 12, month first otherwise; a year of two digits
\* is completed from the current year
SlashYear(v, century, today) == IF century THEN v ELSE ConvertYear(v, today)

\* the date of the three numbers a/b/c; century tells a year written in full
SlashDate(a, b, c, century, today) ==
  IF a > 31 THEN MkDate(SlashYear(a, century, today), b, c)
  ELSE IF a > 12 THEN MkDate(SlashYear(c, century, today), b, a)
  ELSE MkDate(SlashYear(c, century, today), a, b)

\* s1 and s2 are the positions of the two slashes
SlashFields(piece, s1, s2, today) ==
  SlashDate(Num(SubSeq(piece, 1, s1 - 1)), Num(SubSeq(piece, s1 + 1, s2 - 1)),
            Num(SubSeq(piece, s2 + 1, Len(piece))), Len(piece) - s2 > 2, today)

ParseSlashPiece(piece, today) ==
  SlashFields(piece, FindChar(piece, "/"),
              FindChar(piece, "/")
                + FindChar(SubSeq(piece, FindChar(piece, "/") + 1, Len(piece)), "/"),
              today)

\* date_parser.parse(piece, fuzzy=True) of a bare month name: the fields the
\* text does not give are taken from today, the day clipped to the month
ParseMonthPiece(piece, today) ==
  LET k == MonthAt(piece, 1)
      last == DaysInMonth(today.y, k)
  IN MkDate(today.y, k, IF today.d > last THEN last ELSE today.d)

\* the month name a findall of date_patterns[2] returns for a match: the
\* pattern has one capturing group, so findall gives the group, not the match
MonthGroup(s, m) == SubSeq(s, m.from, m.from + Len(MonthNames[MonthAt(s, m.from)]) - 1)

\* the parse of every match of date_patterns[0]
IsoPieces(text, found) ==
  [i \in 1..Len(found) |-> ParseIsoPiece(MatchText(text, found[i]))]

\* the parse of every match of date_patterns[1]
SlashPieces(text, found, today) ==
  [i \in 1..Len(found) |-> ParseSlashPiece(MatchText(text, found[i]), today)]

\* the parse of every match of date_patterns[2]
MonthPieces(text, found, today) ==
  [i \in 1..Len(found) |-> ParseMonthPiece(MonthGroup(text, found[i]), today)]

\* found.append(dt.date().isoformat()) for the pieces that parse
FormatDates(good) ==
  AsList([i \in 1..Len(good) |-> IsoFormat(good[i].y, good[i].m, good[i].d)])

\* the patterns in turn, each piece parsed, and list(dict.fromkeys(found))
extract_dates(text, today) ==
  FirstSeen(FormatDates(SelectSeq(
    IsoPieces(text, FindAll(text, IsoDateMatchEnd))
      \o SlashPieces(text, FindAll(text, SlashDateMatchEnd), today)
      \o MonthPieces(text, FindAll(text, MonthDateMatchEnd), today),
    LAMBDA r : r.ok)))

\* ------------------------------------------------------------------------
\* The caps and thresholds of analyze

ExamplesCap == 10

FirstNameCap == 20

BadMessageCap == 50

SnippetLen == 160

PerUserDupUsersCap == 10

PerUserDupExamplesCap == 5

CrossUserDupCap == 20

DupIdCap == 20

PhoneCap == 10

EmailCap == 10

CcCap == 5

TopWordsCap == 25

SharedCap == 20

ContradictionCap == 50

CadenceCap == 50

LangCap == 50

FarFutureDays == 365

FarPastYear == 2010

CadenceMinMessages == 8

\* truthiness of m.get(f): present and not empty
Truthy(m, f) == f \in DOMAIN m /\ m[f] # << >>

\* ------------------------------------------------------------------------
\* Detector: names (multi-name users, full-name and first-name collisions)

\* sorted({m.get("user_name", "") for m in arr if m.get("user_name")})
NamesOfGroup(arr) ==
  SortedStrings({arr[i].user_name : i \in {j \in 1..Len(arr) : Truthy(arr[j], "user_name")}})

multi_name_users(by) ==
  LET all == [i \in 1..Len(by) |-> [user_id |-> by[i].uid, names |-> NamesOfGroup(by[i].arr)]]
  IN SelectSeq(all, LAMBDA e : Len(e.names) > 1)

\* _norm(uname).split(" ")[0] if _norm(uname) else ""
FirstOfNorm(n) == IF FindChar(n, " ") = 0 THEN n ELSE SubSeq(n, 1, FindChar(n, " ") - 1)

FirstToken(uname) == FirstOfNorm(_norm(uname))

\* the messages the collision loop does not skip (if not uname: continue)
NamedMessages(msgs) == SelectSeq(msgs, LAMBDA m : Get(m, "user_name", << >>) # << >>)

\* the ids under each name, the records without a user id left out
FullNamesOfKnownUsers(msgs) ==
  LET named == SelectSeq(NamedMessages(msgs), LAMBDA m : Get(m, "user_id", << >>) # << >>)
  IN SetDict([i \in 1..Len(named) |->
                [k |-> named[i].user_name, x |-> Get(named[i], "user_id", << >>)]])

\* full_name_to_uids[uname].add(uid)
full_name_to_uids(msgs) ==
  LET named == NamedMessages(msgs)
  IN SetDict([i \in 1..Len(named) |->
                [k |-> named[i].user_name, x |-> Get(named[i], "user_id", << >>)]])

\* if first: first_name_to_uids[first].add(uid)
first_name_to_uids(msgs) ==
  LET named == NamedMessages(msgs)
      all == AsList([i \in 1..Len(named) |->
                [k |-> FirstToken(named[i].user_name), x |-> Get(named[i], "user_id", << >>)]])
  IN SetDict(SelectSeq(all, LAMBDA e : e.k # << >>))

\* the names more than one user id carries, with the ids sorted
SharedNames(shared) ==
  [i \in 1..Len(shared) |->
     [user_name |-> shared[i].k, user_ids |-> SortedStrings(shared[i].v)]]

full_collisions(msgs) ==
  SharedNames(SelectSeq(full_name_to_uids(msgs), LAMBDA e : Cardinality(e.v) > 1))

\* key=lambda x: x["user_count"], reverse=True
MoreUsers(a, b) == a.user_count > b.user_count

\* the first names more than one user id carries, the most shared first
SharedFirstNames(shared) ==
  StableSort([i \in 1..Len(shared) |->
                [first |-> shared[i].k, user_count |-> Cardinality(shared[i].v)]],
             MoreUsers)

first_collisions(msgs) ==
  SharedFirstNames(SelectSeq(first_name_to_uids(msgs), LAMBDA e : Cardinality(e.v) > 1))

NamesDetector(msgs, by) ==
  [multi_name_users |-> multi_name_users(by),
   full_collisions |-> full_collisions(msgs),
   first_collisions |-> first_collisions(msgs)]

\* ------------------------------------------------------------------------
\* Detector: encoding (replacement characters)

HasReplacementChar(t) == \E i \in 1..Len(t) : t[i] = ReplacementChar

bad_name_examples(msgs) ==
  SortedStrings({Get(msgs[i], "user_name", << >>) :
                   i \in {j \in 1..Len(msgs) : HasReplacementChar(Get(msgs[j], "user_name", << >>))}})

BadMessageSample(m) ==
  [id |-> GetOrNone(m, "id"), user_id |-> GetOrNone(m, "user_id"),
   user_name |-> GetOrNone(m, "user_name"),
   snippet |-> Slice(Get(m, "message", << >>), 0, SnippetLen)]

\* the loop that appends a sample for every message with a replacement
\* character and breaks once it holds BadMessageCap samples
bad_message_samples(msgs) ==
  LET bad == SelectSeq(msgs, LAMBDA m : HasReplacementChar(Get(m, "message", << >>)))
      kept == Take(bad, BadMessageCap)
  IN [i \in 1..Len(kept) |-> BadMessageSample(kept[i])]

EncodingDetector(msgs) ==
  [bad_name_examples |-> bad_name_examples(msgs),
   bad_message_samples |-> bad_message_samples(msgs)]

\* ------------------------------------------------------------------------
\* Detector: timestamps
\*
\* Comparing a datetime that carries no offset with one that does raises
\* TypeError; the comparisons are outside the try block.

\* now + timedelta(days=365)
FarFuture(now) == [now EXCEPT !.d = @ + FarFutureDays]

\* the datetimes of one group, in the order of the group
ParsedOfGroup(arr) ==
  AsList([i \in 1..Len(arr) |-> ParseTimestamp(Get(arr[i], "timestamp", << >>))])

\* dt > far_future and dt < last_dt raise TypeError when dt carries no offset
\* (far_future carries one)
AnyNaive(parsed) == \E i \in 1..Len(parsed) : parsed[i].ok /\ ~parsed[i].aware

TsRaises(by) == \E g \in 1..Len(by) : AnyNaive(ParsedOfGroup(by[g].arr))

Descends(dts) == \E i \in 2..Len(dts) : DtLess(dts[i], dts[i - 1])

\* a comparison of the timestamp strings of neighbours instead of the instants
OutOfOrderAsText(arr) ==
  \E i \in 2..Len(arr) : StrLess(TimestampKey(arr[i]), TimestampKey(arr[i - 1]))

\* out_of_order of one group: a datetime earlier than the one parsed before it
OutOfOrder(arr) == Descends(SelectSeq(ParsedOfGroup(arr), LAMBDA dt : dt.ok))

CountWhich(parsed, P(_)) == Cardinality({i \in 1..Len(parsed) : P(parsed[i])})

\* a count of the distinct timestamp strings of the group that do not parse
UnparsableSeenOnce(arr) ==
  Cardinality({TimestampKey(arr[i]) :
                 i \in {j \in 1..Len(arr) : ~ParseTimestamp(TimestampKey(arr[j])).ok}})

\* unparsable += 1 for every record of the group whose timestamp does not parse
UnparsableOfGroup(arr) == CountWhich(ParsedOfGroup(arr), LAMBDA dt : ~dt.ok)

\* how many parsed values of all groups satisfy P
CountParsed(by, P(_)) ==
  SumSeq([g \in 1..Len(by) |-> CountWhich(ParsedOfGroup(by[g].arr), P)])

TimestampDetector(by, clock) ==
  LET far_future == FarFuture(NowUtc(clock))
  IN IF TsRaises(by)
     THEN [raised |-> TRUE, unparsable |-> 0, future |-> 0, far_past |-> 0,
           out_of_order_users |-> 0]
     ELSE [raised |-> FALSE,
           unparsable |-> SumSeq([g \in 1..Len(by) |-> UnparsableOfGroup(by[g].arr)]),
           future |-> CountParsed(by, LAMBDA dt : dt.ok /\ DtLess(far_future, dt)),
           far_past |-> CountParsed(by, LAMBDA dt : dt.ok /\ dt.year < FarPastYear),
           out_of_order_users |-> Cardinality({g \in 1..Len(by) : OutOfOrder(by[g].arr)})]

\* ------------------------------------------------------------------------
\* Detector: duplicates (per user and across users)

\* counts[key] = counts.get(key, 0) + 1 over one group
CountTexts(arr) ==
  CountDict([i \in 1..Len(arr) |-> norm_text(Get(arr[i], "message", << >>))])

\* key=lambda x: x["count"], reverse=True
MoreCount(a, b) == a.count > b.count

\* [{"text": t, "count": c} for t, c in counts.items() if c > 1]
DupsOfCounts(twice) ==
  [i \in 1..Len(twice) |-> [text |-> twice[i].k, count |-> twice[i].v]]

DupsOfGroup(arr) == DupsOfCounts(SelectSeq(CountTexts(arr), LAMBDA e : e.v > 1))

\* the entries appended for the groups that have duplicates
DupEntries(some) ==
  [i \in 1..Len(some) |->
     [user_id |-> some[i].user_id,
      examples |-> Take(StableSort(some[i].dups, MoreCount), PerUserDupExamplesCap)]]

per_user_duplicates(by) ==
  DupEntries(SelectSeq([g \in 1..Len(by) |->
                          [user_id |-> by[g].uid, dups |-> AsList(DupsOfGroup(by[g].arr))]],
                       LAMBDA e : e.dups # << >>))

\* text_to_uids[norm_text(message)].add(user_id)
TextUsers(msgs) ==
  SetDict([i \in 1..Len(msgs) |->
             [k |-> norm_text(Get(msgs[i], "message", << >>)),
              x |-> Get(msgs[i], "user_id", << >>)]])

\* the shared texts in the order they were first seen
SharedTextsAsSeen(shared) ==
  Take([i \in 1..Len(shared) |->
          [text |-> shared[i].k, user_count |-> Cardinality(shared[i].v)]],
       CrossUserDupCap)

\* cross_user_duplicate_texts.sort(key=user_count, reverse=True) and [:20]
SharedTexts(shared) ==
  Take(StableSort([i \in 1..Len(shared) |->
                     [text |-> shared[i].k, user_count |-> Cardinality(shared[i].v)]],
                  MoreUsers),
       CrossUserDupCap)

cross_user_duplicate_texts(msgs) ==
  SharedTexts(SelectSeq(TextUsers(msgs), LAMBDA e : Cardinality(e.v) > 1 /\ Len(e.k) > 0))

DuplicateDetector(msgs, by) ==
  [per_user_duplicates |-> per_user_duplicates(by),
   cross_user_duplicate_texts |-> cross_user_duplicate_texts(msgs)]

\* ------------------------------------------------------------------------
\* Detector: PII samples

PiiSample(m) ==
  [id |-> GetOrNone(m, "id"), user_id |-> GetOrNone(m, "user_id"),
   snippet |-> Slice(Get(m, "message", << >>), 0, SnippetLen)]

\* a test of the digit count alone
CardLengthOnly(digits) == Len(digits) >= CcMinDigits /\ Len(digits) <= CcMaxDigits

\* the loop over cc_re.finditer(txt): whether some match has 13 to 19 digits
\* and passes luhn_check (the loop breaks at the first)
ValidCardDigits(digits) ==
  Len(digits) >= CcMinDigits /\ Len(digits) <= CcMaxDigits /\ luhn_check(digits)

AnyValidCard(txt, ms) ==
  \E i \in 1..Len(ms) : ValidCardDigits(Digits(MatchText(txt, ms[i])))

HasValidCard(txt) == AnyValidCard(txt, FindAll(txt, CcMatchEnd))

\* the samples appended for the messages whose text satisfies Hit
PiiSamples(msgs, Hit(_)) ==
  LET hits == SelectSeq(msgs, LAMBDA m : Hit(Get(m, "message", << >>)))
  IN [i \in 1..Len(hits) |-> PiiSample(hits[i])]

PiiDetector(msgs) ==
  [phone_msgs |-> PiiSamples(msgs, LAMBDA txt : Search(txt, PhoneMatchEnd)),
   email_msgs |-> PiiSamples(msgs, LAMBDA txt : Search(txt, EmailMatchEnd)),
   cc_msgs |-> PiiSamples(msgs, HasValidCard)]

\* ------------------------------------------------------------------------
\* Detector: message statistics and top words

\* round(num / den, digits) as an integer number of 10^-digits units, scale
\* being 10^digits: the nearest integer to scale * num / den, a tie going to
\* the even one (Python rounds the float; the two agree wherever the quotient
\* is a binary fraction or no tie)
RoundDiv(num, den, scale) ==
  LET q == (scale * num) \div den
      r == (scale * num) % den
  IN IF 2 * r < den THEN q
     ELSE IF 2 * r > den THEN q + 1
     ELSE IF q % 2 = 0 THEN q ELSE q + 1

stop ==
  { << "a" >>, << "a", "n" >>, << "t", "h", "e" >>,
    << "i", "s" >>, << "a", "r", "e" >>, << "w", "a", "s" >>,
    << "w", "e", "r", "e" >>, << "a", "m" >>, << "i" >>,
    << "y", "o", "u" >>, << "h", "e" >>, << "s", "h", "e" >>,
    << "i", "t" >>, << "w", "e" >>, << "t", "h", "e", "y" >>,
    << "o", "f" >>, << "t", "o" >>, << "i", "n" >>,
    << "o", "n" >>, << "f", "o", "r" >>, << "w", "i", "t", "h" >>,
    << "a", "n", "d" >>, << "o", "r" >>, << "a", "s" >>,
    << "a", "t" >>, << "b", "y" >>, << "f", "r", "o", "m" >>,
    << "t", "h", "a", "t" >>, << "t", "h", "i", "s" >>, << "t", "h", "e", "s", "e" >>,
    << "t", "h", "o", "s", "e" >>, << "w", "h", "a", "t" >>, << "w", "h", "e", "n" >>,
    << "h", "o", "w" >>, << "m", "a", "n", "y" >>, << "d", "o", "e", "s" >>,
    << "d", "o" >>, << "d", "i", "d" >>, << "h", "a", "v", "e" >>,
    << "h", "a", "s" >>, << "h", "a", "d" >>, << "m", "y" >>,
    << "m", "e" >>, << "y", "o", "u", "r" >>, << "o", "u", "r" >>,
    << "t", "h", "e", "i", "r" >> }

\* the words of one message that the Counter counts
CountedWords(m) ==
  SelectSeq(Split(_norm(Get(m, "message", << >>))), LAMBDA w : w # << >> /\ w \notin stop)

\* the Counter filled over all messages, in first-seen order
WordCounts(msgs) == CountDict(Concat([i \in 1..Len(msgs) |-> CountedWords(msgs[i])]))

MoreOften(a, b) == a.v > b.v

\* Counter.most_common(n): by count, largest first, equal counts in the
\* order the words were first seen
WordsAndCounts(top) == [i \in 1..Len(top) |-> [word |-> top[i].k, count |-> top[i].v]]

\* the same, with equal counts in ascending order of the word
MostCommonByText(counts, n) ==
  WordsAndCounts(Take(StableSort(counts,
     LAMBDA a, b : a.v > b.v \/ (a.v = b.v /\ StrLess(a.k, b.k))), n))

most_common(counts, n) == WordsAndCounts(Take(StableSort(counts, MoreOften), n))

MessageLengths(msgs) == [i \in 1..Len(msgs) |-> Len(Get(msgs[i], "message", << >>))]

\* round(sum(lengths) / max(1, len(lengths)), 2), in hundredths
AvgLen(lengths) ==
  RoundDiv(SumSeq(lengths), IF Len(lengths) > 1 THEN Len(lengths) ELSE 1, 100)

\* min(lengths, default=-1)
MinLenOrSentinel(lengths) == IF Len(lengths) > 0 THEN MinOf(SeqRange(lengths)) ELSE -1

\* min(lengths) if lengths else 0
MinLen(lengths) == IF Len(lengths) > 0 THEN MinOf(SeqRange(lengths)) ELSE 0

\* max(lengths) if lengths else 0
MaxLen(lengths) == IF Len(lengths) > 0 THEN MaxOf(SeqRange(lengths)) ELSE 0

LengthStats(lengths, top_words) ==
  [avg_len |-> AvgLen(lengths), min_len |-> MinLen(lengths), max_len |-> MaxLen(lengths),
   top_words |-> top_words]

LexicalDetector(msgs) ==
  LengthStats(AsList(MessageLengths(msgs)), most_common(WordCounts(msgs), TopWordsCap))

\* ------------------------------------------------------------------------
\* Detector: identifier integrity and missing fields

CountWhere(msgs, P(_)) == Cardinality({i \in 1..Len(msgs) : P(msgs[i])})

IntegrityDetector(msgs) ==
  [invalid_user_id_count |->
     CountWhere(msgs, LAMBDA m : ~UuidMatch(Str(Get(m, "user_id", << >>)))),
   invalid_message_id_count |->
     CountWhere(msgs, LAMBDA m : ~UuidMatch(Str(Get(m, "id", << >>)))),
   missing_user_id |-> CountWhere(msgs, LAMBDA m : ~Truthy(m, "user_id")),
   missing_user_name |-> CountWhere(msgs, LAMBDA m : ~Truthy(m, "user_name")),
   missing_timestamp |-> CountWhere(msgs, LAMBDA m : ~Truthy(m, "timestamp")),
   missing_message |-> CountWhere(msgs, LAMBDA m : ~Truthy(m, "message"))]

\* ------------------------------------------------------------------------
\* Detector: duplicate message ids

\* the ids of the records that have one, counted
IdCountsOfPresent(msgs) ==
  CountDict([i \in 1..Len(SelectSeq(msgs, LAMBDA m : "id" \in DOMAIN m)) |->
               SelectSeq(msgs, LAMBDA m : "id" \in DOMAIN m)[i].id])

\* id_counts[str(m.get("id"))] += 1
IdCounts(msgs) == CountDict([i \in 1..Len(msgs) |-> Str(GetOrNone(msgs[i], "id"))])

Keys(dict) == [i \in 1..Len(dict) |-> dict[i].k]

dup_ids(msgs) == Keys(SelectSeq(IdCounts(msgs), LAMBDA e : e.v > 1))

\* ------------------------------------------------------------------------
\* Detector: phones and emails shared across users

\* re.sub(r"\D+", "", s)
norm_phone(ph) == Digits(ph)

SharedPhoneMinLen == 7

\* the [norm_phone(ph), uid] pairs of the matches found in one message
PhonePairs(txt, uid, found) ==
  [j \in 1..Len(found) |-> [k |-> norm_phone(MatchText(txt, found[j])), x |-> uid]]

PhonesOf(txt, uid) == PhonePairs(txt, uid, FindAll(txt, PhoneMatchEnd))

\* phone_to_users[norm_phone(ph)].add(uid) for every match of every message
phone_to_users(msgs) ==
  SetDict(Concat([i \in 1..Len(msgs) |->
            PhonesOf(Get(msgs[i], "message", << >>), Get(msgs[i], "user_id", << >>))]))

\* the [em.lower(), uid] pairs of the matches found in one message
EmailPairs(txt, uid, found) ==
  [j \in 1..Len(found) |-> [k |-> Lower(MatchText(txt, found[j])), x |-> uid]]

EmailsOf(txt, uid) == EmailPairs(txt, uid, FindAll(txt, EmailMatchEnd))

\* email_to_users[em.lower()].add(uid) for every match of every message
email_to_users(msgs) ==
  SetDict(Concat([i \in 1..Len(msgs) |->
            EmailsOf(Get(msgs[i], "message", << >>), Get(msgs[i], "user_id", << >>))]))

SharedPhones(phones) ==
  StableSort([i \in 1..Len(phones) |->
                [phone |-> phones[i].k, user_count |-> Cardinality(phones[i].v)]],
             MoreUsers)

SharedEmails(emails) ==
  StableSort([i \in 1..Len(emails) |->
                [email |-> emails[i].k, user_count |-> Cardinality(emails[i].v)]],
             MoreUsers)

ReuseDetector(msgs) ==
  [shared_phones |->
     SharedPhones(SelectSeq(phone_to_users(msgs),
                    LAMBDA e : Cardinality(e.v) > 1 /\ Len(e.k) >= SharedPhoneMinLen)),
   shared_emails |->
     SharedEmails(SelectSeq(email_to_users(msgs), LAMBDA e : Cardinality(e.v) > 1))]

\* ------------------------------------------------------------------------
\* Detector: contradictions (seat preference flips, same-day multi-city)

PreferAisle == << "p", "r", "e", "f", "e", "r", " ", "a", "i", "s", "l", "e" >>

PreferWindow == << "p", "r", "e", "f", "e", "r", " ", "w", "i", "n", "d", "o", "w" >>

SeatFlipType == << "s", "e", "a", "t", "_", "p", "r", "e", "f", "e", "r", "e", "n", "c",
                "e", "_", "f", "l", "i", "p" >>

\* the [d, cities] pairs one message adds to date_to_cities: for d in dts:
\* for c in cities: date_to_cities[d].add(c)
DatePairs(dts, cities) ==
  IF cities = {} THEN << >> ELSE [j \in 1..Len(dts) |-> [k |-> dts[j], xs |-> cities]]

DatePairsOf(txt, today) == DatePairs(extract_dates(txt, today), extract_cities(txt))

\* date_to_cities of one group
DateCities(arr, today) ==
  UnionDict(Concat([i \in 1..Len(arr) |->
              DatePairsOf(Lower(Get(arr[i], "message", << >>)), today)]))

SeatFlip(arr) ==
  /\ \E i \in 1..Len(arr) : Contains(Lower(Get(arr[i], "message", << >>)), PreferAisle)
  /\ \E i \in 1..Len(arr) : Contains(Lower(Get(arr[i], "message", << >>)), PreferWindow)

SameDayEntries(uid, many) ==
  [i \in 1..Len(many) |->
     [user_id |-> uid, date |-> many[i].k, cities |-> SortedStrings(many[i].v)]]

SameDayOfGroup(uid, arr, today) ==
  SameDayEntries(uid, SelectSeq(DateCities(arr, today), LAMBDA e : Cardinality(e.v) > 1))

FlipEntries(flips) ==
  [i \in 1..Len(flips) |-> [user_id |-> flips[i].uid, type |-> SeatFlipType]]

ContradictionDetector(by, clock) ==
  [contradictions |-> FlipEntries(SelectSeq(by, LAMBDA g : SeatFlip(g.arr))),
   same_day_multi_city |->
     Concat([g \in 1..Len(by) |-> SameDayOfGroup(by[g].uid, by[g].arr, clock)])]

\* ------------------------------------------------------------------------
\* Detector: cadence

\* Products of two naturals below 2^30, as four base-2^15 digits, most
\* significant first: the gap statistics need more than 32 bits.
Limb == 32768

BigMul(a, b) ==
  LET a1 == a \div Limb
      a0 == a % Limb
      b1 == b \div Limb
      b0 == b % Limb
      p0 == a0 * b0
      t1 == a1 * b0 + a0 * b1 + p0 \div Limb
      t2 == a1 * b1 + t1 \div Limb
  IN << t2 \div Limb, t2 % Limb, t1 % Limb, p0 % Limb >>

BigLess(x, y) ==
  \E i \in 1..4 : x[i] < y[i] /\ \A j \in 1..(i - 1) : x[j] = y[j]

\* a * b < c * d
ProductLess(a, b, c, d) == BigLess(BigMul(a, b), BigMul(c, d))

\* the timestamps of a group that parse, in group order
ParsedTimes(arr) ==
  SelectSeq([i \in 1..Len(arr) |-> ParseTimestamp(Get(arr[i], "timestamp", << >>))],
            LAMBDA dt : dt.ok)

\* times.sort() raises TypeError when the list mixes datetimes with and
\* without an offset
MixedAwareness(times) ==
  \E i, j \in 1..Len(times) : times[i].aware # times[j].aware

Gaps(times) == [i \in 1..(Len(times) - 1) |-> DtDiffSeconds(times[i + 1], times[i])]

\* n * sum(g^2) - sum(g)^2, which is n^2 times the population variance,
\* computed as the sum of the squared pairwise differences
Spread(gaps) ==
  LET n == Len(gaps)
      sq(i, j) == IF i < j THEN (gaps[i] - gaps[j]) * (gaps[i] - gaps[j]) ELSE 0
  IN SumSeq([k \in 1..(n * n) |-> sq(((k - 1) \div n) + 1, ((k - 1) % n) + 1)])

CvLimitNum == 8

CvLimitDen == 100

MeanGapMin == 10

MeanGapMax == 86400

\* cv <= 0.08
CvAtMostLimit(spread, total) ==
  IF total <= 0 THEN TRUE
  ELSE ~ProductLess(CvLimitNum * total, CvLimitNum * total, CvLimitDen * CvLimitDen, spread)

\* cv < 0.08, i.e. sqrt(spread) / total < 8 / 100
CvBelowLimit(spread, total) ==
  IF total <= 0 THEN TRUE
  ELSE ProductLess(CvLimitDen * CvLimitDen, spread, CvLimitNum * total, CvLimitNum * total)

\* round(cv, 4) in ten-thousandths, for a cv below the limit: the c with
\* c - 1/2 <= 10^4 * sqrt(spread) / total < c + 1/2
RoundedCv(spread, total) ==
  IF total <= 0 \/ spread = 0 THEN 0
  ELSE CHOOSE c \in 0..(CvLimitNum * 100) :
         /\ c = 0 \/ ~ProductLess(20000 * 20000, spread, (2 * c - 1) * total, (2 * c - 1) * total)
         /\ ProductLess(20000 * 20000, spread, (2 * c + 1) * total, (2 * c + 1) * total)

NoCadence == [raised |-> FALSE, flagged |-> FALSE, entry |-> << >>]

\* the test on the gap statistics and the entry appended when it passes: n
\* gaps, their sum total and their spread
CadenceOfGaps(uid, n, total, spread) ==
  IF /\ MeanGapMin * n <= total /\ total <= MeanGapMax * n
     /\ CvBelowLimit(spread, total)
  THEN [raised |-> FALSE, flagged |-> TRUE,
        entry |-> [user_id |-> uid, mean_gap_s |-> RoundDiv(total, n, 10),
                   cv |-> RoundedCv(spread, total), samples |-> n]]
  ELSE NoCadence

\* times.sort() and the gaps between neighbours
SortedGaps(times) == AsList(Gaps(AsList(StableSort(times, DtLess))))

CadenceOfTimes(uid, times) ==
  IF Len(times) < CadenceMinMessages THEN NoCadence
  ELSE IF MixedAwareness(times) THEN [NoCadence EXCEPT !.raised = TRUE]
  ELSE CadenceOfGaps(uid, Len(times) - 1, SumSeq(SortedGaps(times)), Spread(SortedGaps(times)))

\* one iteration of the loop over by_user: [raised, flagged, entry]
CadenceOfGroup(uid, arr) ==
  IF Len(arr) < CadenceMinMessages THEN NoCadence
  ELSE CadenceOfTimes(uid, ParsedTimes(arr))

\* key=lambda x: x["cv"]
LowerCv(a, b) == a.cv < b.cv

\* the entries of the flagged groups, sorted by cv
CadenceEntries(per) ==
  StableSort([i \in 1..Len(per) |-> per[i].entry], LowerCv)

CadenceOfGroups(per) ==
  [raised |-> \E g \in 1..Len(per) : per[g].raised,
   suspicious_cadence |-> CadenceEntries(SelectSeq(per, LAMBDA r : r.flagged))]

\* mean_gap_s is in tenths of a second, cv in ten-thousandths
CadenceDetector(by) ==
  CadenceOfGroups(AsList([g \in 1..Len(by) |-> CadenceOfGroup(by[g].uid, by[g].arr)]))

\* ------------------------------------------------------------------------
\* Detector: language (script shift)

AsciiCount(t) == Cardinality({i \in 1..Len(t) : Ord[t[i]] < 128})

\* the [ascii, len] pairs of the non-empty messages of a group
RatiosOf(texts) ==
  AsList([i \in 1..Len(texts) |-> [num |-> AsciiCount(texts[i]), den |-> Len(texts[i])]])

Ratios(arr) ==
  RatiosOf(SelectSeq([i \in 1..Len(arr) |-> Get(arr[i], "message", << >>)],
                     LAMBDA t : t # << >>))

\* a < b for two ratios
RatioLess(a, b) == a.num * b.den < b.num * a.den

MinRatio(rs) == CHOOSE r \in SeqRange(rs) : \A q \in SeqRange(rs) : ~RatioLess(q, r)

MaxRatio(rs) == CHOOSE r \in SeqRange(rs) : \A q \in SeqRange(rs) : ~RatioLess(r, q)

\* the ratio thresholds 0.6 and 0.95
LowRatio == [num |-> 6, den |-> 10]

HighRatio == [num |-> 95, den |-> 100]

ShiftIn(rs) ==
  rs # << >> /\ RatioLess(MinRatio(rs), LowRatio) /\ RatioLess(HighRatio, MaxRatio(rs))

ScriptShift(arr) == ShiftIn(Ratios(arr))

\* the entry appended for a group: round(min(ratios), 3), round(max(ratios), 3)
ShiftEntry(uid, lo, hi) ==
  [user_id |-> uid,
   min_ascii_ratio |-> RoundDiv(lo.num, lo.den, 1000),
   max_ascii_ratio |-> RoundDiv(hi.num, hi.den, 1000)]

ShiftEntries(shifted) ==
  [i \in 1..Len(shifted) |->
     ShiftEntry(shifted[i].uid, MinRatio(Ratios(shifted[i].arr)),
                MaxRatio(Ratios(shifted[i].arr)))]

\* the ratios are in thousandths
LanguageDetector(by) == ShiftEntries(SelectSeq(by, LAMBDA g : ScriptShift(g.arr)))

\* ------------------------------------------------------------------------
\* The report of analyze

\* the return statement of analyze: acc holds what each detector block left
Report(msgs, by, acc) ==
  LET names == acc.names
      encoding == acc.encoding
      timestamps == acc.timestamps
      duplicates == acc.duplicates
      pii == acc.pii
      lexical == acc.lexical
      integrity == acc.integrity
      dupids == acc.dupids
      reuse == acc.reuse
      contra == acc.contradictions
      cadence == acc.cadence
      language == acc.language
  IN
  [totals |->
     [messages |-> Len(msgs), users |-> Len(by), avg_message_length |-> lexical.avg_len,
      min_message_length |-> lexical.min_len, max_message_length |-> lexical.max_len],
   names |->
     [user_ids_with_multiple_names_count |-> Len(names.multi_name_users),
      user_ids_with_multiple_names_examples |-> Take(names.multi_name_users, ExamplesCap),
      full_name_collisions_count |-> Len(names.full_collisions),
      full_name_collisions_examples |-> Take(names.full_collisions, ExamplesCap),
      first_name_collisions_top |-> Take(names.first_collisions, FirstNameCap)],
   encoding |->
     [names_with_replacement_char_count |-> Len(encoding.bad_name_examples),
      names_with_replacement_char_examples |-> Take(encoding.bad_name_examples, ExamplesCap),
      sample_bad_messages |-> encoding.bad_message_samples],
   timestamps |->
     [unparsable |-> timestamps.unparsable, far_future_gt_1y |-> timestamps.future,
      far_past_lt_2010 |-> timestamps.far_past,
      out_of_order_user_count |-> timestamps.out_of_order_users],
   duplicates |->
     [per_user_duplicates_examples |-> Take(duplicates.per_user_duplicates, PerUserDupUsersCap),
      cross_user_duplicate_texts |-> duplicates.cross_user_duplicate_texts,
      duplicate_message_id_count |-> Len(dupids),
      duplicate_message_id_examples |-> Take(dupids, DupIdCap)],
   pii_samples |->
     [phone_like |-> Take(pii.phone_msgs, PhoneCap),
      email_like |-> Take(pii.email_msgs, EmailCap),
      credit_card_like |-> Take(pii.cc_msgs, CcCap)],
   top_words |-> lexical.top_words,
   integrity |->
     [invalid_user_id_count |-> integrity.invalid_user_id_count,
      invalid_message_id_count |-> integrity.invalid_message_id_count,
      missing_fields |->
        [missing_user_id |-> integrity.missing_user_id,
         missing_user_name |-> integrity.missing_user_name,
         missing_timestamp |-> integrity.missing_timestamp,
         missing_message |-> integrity.missing_message]],
   pii_cross_user_reuse |->
     [shared_phones |-> Take(reuse.shared_phones, SharedCap),
      shared_emails |-> Take(reuse.shared_emails, SharedCap)],
   contradictions |->
     [seat_preference_flips |-> Take(contra.contradictions, ContradictionCap),
      same_day_multi_city |-> Take(contra.same_day_multi_city, ContradictionCap)],
   cadence |-> [suspicious_cadence_users |-> Take(cadence.suspicious_cadence, CadenceCap)],
   language |-> [script_shift_users |-> Take(language, LangCap)]]

\* The detector blocks of analyze, in the order of the code
Detectors ==
  << "names", "encoding", "timestamps", "duplicates", "pii", "lexical", "integrity",
     "dupids", "reuse", "contradictions", "cadence", "language" >>

\* what the detector block d computes from the corpus and the grouping when
\* the wall clock reads clock
BlockResult(d, msgs, by, clock) ==
  CASE d = "names" -> NamesDetector(msgs, by)
    [] d = "encoding" -> EncodingDetector(msgs)
    [] d = "timestamps" -> TimestampDetector(by, clock)
    [] d = "duplicates" -> DuplicateDetector(msgs, by)
    [] d = "pii" -> PiiDetector(msgs)
    [] d = "lexical" -> LexicalDetector(msgs)
    [] d = "integrity" -> IntegrityDetector(msgs)
    [] d = "dupids" -> dup_ids(msgs)
    [] d = "reuse" -> ReuseDetector(msgs)
    [] d = "contradictions" -> ContradictionDetector(by, clock)
    [] d = "cadence" -> CadenceDetector(by)
    [] d = "language" -> LanguageDetector(by)

\* whether the block d ended in an exception (the two blocks that compare
\* datetimes outside a try)
BlockRaises(d, res) == d \in {"timestamps", "cadence"} /\ res.raised

\* analyze(messages) run from start to end when the clock reads clock: the
\* report, or Raised when a detector raises
Raised == [raised |-> TRUE]

\* some block raises on the corpus
SomeBlockRaises(msgs, by, clock) ==
  \E d \in SeqRange(Detectors) : BlockRaises(d, BlockResult(d, msgs, by, clock))

RunBlocks(msgs, by, clock) ==
  AsDict([d \in SeqRange(Detectors) |-> BlockResult(d, msgs, by, clock)])

\* analyze after its first line: the blocks in the order of the code, then the
\* return statement, unless a block raised
AnalyzeGrouped(msgs, by, clock) ==
  IF SomeBlockRaises(msgs, by, clock) THEN Raised
  ELSE Report(msgs, by, RunBlocks(msgs, by, clock))

Analyze(msgs, clock) == AnalyzeGrouped(msgs, group_by_user(msgs), clock)


\* ------------------------------------------------------------------------
\* Large corpora: u users of r records each, built so that every finding list
\* of the report has more candidates than its cap allows

TwoDigits(n) == << DigitChar((n \div 10) % 10), DigitChar(n % 10) >>

\* the message texts a user cycles through; kk is the number of the pair of
\* users the user belongs to
GenMessages(kk) ==
  << << "d", "u", "p", " " >> \o kk,
     << "b", "a", "d", " ", "U+FFFD" >>,
     << "p", "r", "e", "f", "e", "r", " ", "a", "i", "s", "l", "e", " ", "p", "a", "r", "i", "s", " ",
        "2", "0", "2", "4", "-", "0", "3", "-", "0", "5", " ", "+", "1", " ", "5", "5", "5", " ",
        "1", "2", "3", " ", "4", "0" >> \o kk,
     << "p", "r", "e", "f", "e", "r", " ", "w", "i", "n", "d", "o", "w", " ", "r", "o", "m", "e", " ",
        "2", "0", "2", "4", "-", "0", "3", "-", "0", "5", " ", "a" >> \o kk
        \o << "@", "b", ".", "c", "o" >>,
     << "U+65E5", "U+65E5", "U+65E5", "U+65E5" >>,
     << "4", "1", "1", "1", " ", "1", "1", "1", "1", " ", "1", "1", "1", "1", " ",
        "1", "1", "1", "1" >> >>

\* the user names a user cycles through
GenNames(kk) ==
  << << "N" >> \o kk \o << " ", "S", "m", "i", "t", "h" >>,
     << "N" >> \o kk \o << "U+FFFD" >>,
     << "N" >> \o kk \o << " ", "S" >> >>

\* record j (from 1) of user i (from 0): the users 2k and 2k + 1 share names,
\* message ids and texts; the timestamps of a user are one minute apart
GenRecord(i, j) ==
  LET kk == TwoDigits(i \div 2)
      texts == GenMessages(kk)
      names == GenNames(kk)
  IN Rec(<< "m" >> \o kk \o TwoDigits(j),
         << "u" >> \o TwoDigits(i),
         names[((j - 1) % Len(names)) + 1],
         << "2", "0", "2", "4", "-", "0", "1", "-", "0", "1", "T", "0", "0", ":" >>
           \o TwoDigits(j) \o << ":", "0", "0", "Z" >>,
         texts[((j - 1) % Len(texts)) + 1])

Generated(u, r) ==
  AsList([n \in 1..(u * r) |-> GenRecord((n - 1) \div r, ((n - 1) % r) + 1)])

ExtraUsers == 1

\* one user more than the widest cap on a per-user list
MaxUsers == CadenceCap + ExtraUsers

UserCounts == {0, 1, 2, ExamplesCap + ExtraUsers, SharedCap + ExtraUsers, MaxUsers}

RecordCounts == {1, 2, CadenceMinMessages, 2 * Len(GenMessages(<< >>))}

GeneratedCorpora ==
  {Generated(sh[1], sh[2]) :
     sh \in {x \in UserCounts \X RecordCounts : x[1] * x[2] <= MaxUsers * CadenceMinMessages}}

\* ------------------------------------------------------------------------
\* Inputs of luhn_check: n digits, the k-th being (step * k + first) mod 10,
\* written without separators or with a dash after every fourth digit

MinLuhnLen == 11

MaxLuhnLen == 16

LuhnSteps == {1, 3, 7}

LuhnDigits(n, step, first) == [k \in 1..n |-> DigitChar((step * k + first) % 10)]

Dashed(digits) ==
  Concat([k \in 1..Len(digits) |->
            IF k % 4 = 0 /\ k < Len(digits) THEN << digits[k], "-" >> ELSE << digits[k] >>])

LuhnInputs ==
  LET plain == {LuhnDigits(n, st, f) : n \in MinLuhnLen..MaxLuhnLen, st \in LuhnSteps, f \in 0..9}
  IN plain \cup {Dashed(d) : d \in plain}

\* ------------------------------------------------------------------------
\* The state machine: one call of analyze after another on the same corpus

VARIABLES
  messages,   \* the list analyze is called with
  given,      \* the corpus as the caller built it
  clock,      \* the wall clock of the running call, an index of Clocks
  pc,         \* "call", "detect", "returned", "raised"; the function called otherwise
  by_user,    \* the grouping, once group_by_user has run
  acc,        \* what the detector blocks that have run have left
  report,     \* what analyze returned
  first,      \* how the first call ended, once a second has begun
  luhn,       \* a call of luhn_check: its argument and its result
  norm,       \* a call of _norm, and one more on its result
  cli,        \* a run of main of the report script
  lookup,     \* a call of resolve_with_index
  build       \* a run of build_index of scripts/build_index.py

vars ==
  << messages, given, clock, pc, by_user, acc, report, first, luhn, norm, cli, lookup, build >>

Unset == [unset |-> TRUE]

NoLuhn == [num |-> << >>, called |-> FALSE, result |-> FALSE]

\* a grouping that sorts the list it was passed
CorpusSortedInPlace(msgs) == AsList(StableSort(msgs, EarlierTimestampKey))

\* the list passed to group_by_user after the call: the loop appends the
\* records to the lists of the defaultdict and sorts those lists
CorpusAfterGrouping(msgs) == msgs

\* a cadence block that deletes the groups it skips
GroupsWithoutShort(d, by) ==
  IF d = "cadence" THEN SelectSeq(by, LAMBDA g : Len(g.arr) >= CadenceMinMessages) ELSE by

\* by_user after the detector block d: no block assigns to by_user, appends
\* to a group or sorts one (the cadence block sorts times, a list of its own)
GroupsAfterBlock(d, by) == by

Calling(corpora, clocks) ==
  /\ messages \in corpora
  /\ given = messages
  /\ clock \in clocks
  /\ pc = "call"
  /\ by_user = << >>
  /\ acc = << >>
  /\ report = Unset
  /\ first = Unset
  /\ luhn = NoLuhn
  /\ norm = Unset
  /\ cli = Unset
  /\ lookup = Unset
  /\ build = Unset

Init == Calling(Corpora, 1..Len(Clocks))

\* by_user = group_by_user(messages)
Group ==
  /\ pc = "call"
  /\ by_user' = group_by_user(messages)
  /\ messages' = CorpusAfterGrouping(messages)
  /\ pc' = "detect"
  /\ UNCHANGED << given, clock, acc, report, first, luhn, norm, cli, lookup, build >>

\* the blocks that come before d in the code
Before(d) == {Detectors[j] : j \in {i \in 1..Len(Detectors) : \A k \in 1..i : Detectors[k] # d}}

\* the detector block d runs to its end, leaving res, or to the exception it
\* raises; in_order tells whether the blocks run in the order of the code
Block(d, res, in_order) ==
  /\ pc = "detect"
  /\ d \notin DOMAIN acc
  /\ in_order => DOMAIN acc = Before(d)
  /\ pc' = IF BlockRaises(d, res) THEN "raised" ELSE pc
  /\ acc' = IF BlockRaises(d, res) THEN acc ELSE acc @@ (d :> res)
  /\ by_user' = GroupsAfterBlock(d, by_user)
  /\ UNCHANGED << messages, given, clock, report, first, luhn, norm, cli, lookup, build >>

NamesBlock == Block("names", NamesDetector(messages, by_user), TRUE)

EncodingBlock == Block("encoding", EncodingDetector(messages), TRUE)

TimestampsBlock == Block("timestamps", TimestampDetector(by_user, Clocks[clock]), TRUE)

DuplicatesBlock == Block("duplicates", DuplicateDetector(messages, by_user), TRUE)

PiiBlock == Block("pii", PiiDetector(messages), TRUE)

LexicalBlock == Block("lexical", LexicalDetector(messages), TRUE)

IntegrityBlock == Block("integrity", IntegrityDetector(messages), TRUE)

DupIdsBlock == Block("dupids", dup_ids(messages), TRUE)

ReuseBlock == Block("reuse", ReuseDetector(messages), TRUE)

ContradictionsBlock ==
  Block("contradictions", ContradictionDetector(by_user, Clocks[clock]), TRUE)

CadenceBlock == Block("cadence", CadenceDetector(by_user), TRUE)

LanguageBlock == Block("language", LanguageDetector(by_user), TRUE)

\* the return statement: the report is built once every block has run
Assemble ==
  /\ pc = "detect"
  /\ DOMAIN acc = SeqRange(Detectors)
  /\ report' = Report(messages, by_user, acc)
  /\ pc' = "returned"
  /\ UNCHANGED << messages, given, clock, by_user, acc, first, luhn, norm, cli, lookup, build >>

\* analyze is called again on the same list, no earlier than the first call
Rerun ==
  /\ pc \in {"returned", "raised"}
  /\ first = Unset
  /\ first' = [pc |-> pc, report |-> report]
  /\ \E c \in clock..Len(Clocks) : clock' = c
  /\ pc' = "call"
  /\ by_user' = << >>
  /\ acc' = << >>
  /\ report' = Unset
  /\ UNCHANGED << messages, given, luhn, norm, cli, lookup, build >>

Detect ==
  \/ NamesBlock \/ EncodingBlock \/ TimestampsBlock \/ DuplicatesBlock
  \/ PiiBlock \/ LexicalBlock \/ IntegrityBlock \/ DupIdsBlock
  \/ ReuseBlock \/ ContradictionsBlock \/ CadenceBlock \/ LanguageBlock

Next == Group \/ Detect \/ Assemble \/ Rerun

Spec == Init /\ [][Next]_vars

\* ------------------------------------------------------------------------
\* The detector blocks run by independent workers, in any order

\* the corpora the workers are given
AnyOrderCorpora ==
  {<< >>, SubSeq(PoolList, 1, 3), SubSeq(PoolList, 5, 6), SubSeq(PoolList, 8, 10)}

InitAnyOrder == Calling(AnyOrderCorpora, {1})

\* some block that has not run yet runs
AnyBlock ==
  \E d \in SeqRange(Detectors) :
     Block(d, BlockResult(d, messages, by_user, Clocks[clock]), FALSE)

NextAnyOrder == Group \/ AnyBlock \/ Assemble

SpecAnyOrder == InitAnyOrder /\ [][NextAnyOrder]_vars

\* ------------------------------------------------------------------------
\* analyze on the large corpora

InitCaps == Calling(GeneratedCorpora, {1})

NextCaps == Group \/ Detect \/ Assemble

SpecCaps == InitCaps /\ [][NextCaps]_vars

\* ------------------------------------------------------------------------
\* luhn_check on its own

InitLuhn ==
  /\ messages = << >>
  /\ given = << >>
  /\ clock = 1
  /\ pc = "luhn"
  /\ by_user = << >>
  /\ acc = << >>
  /\ report = Unset
  /\ first = Unset
  /\ luhn \in {[num |-> x, called |-> FALSE, result |-> FALSE] : x \in LuhnInputs}
  /\ norm = Unset
  /\ cli = Unset
  /\ lookup = Unset
  /\ build = Unset

LuhnCall ==
  /\ pc = "luhn"
  /\ ~luhn.called
  /\ luhn' = [luhn EXCEPT !.called = TRUE, !.result = luhn_check(luhn.num)]
  /\ UNCHANGED << messages, given, clock, pc, by_user, acc, report, first, norm, cli, lookup, build >>

NextLuhn == LuhnCall

SpecLuhn == InitLuhn /\ [][NextLuhn]_vars

\* ------------------------------------------------------------------------
\* analyze on messages that hold card-like numbers

\* "4111111111111111": one match, which passes luhn_check
CardPlain ==
  << "4", "1", "1", "1", "1", "1", "1", "1", "1", "1", "1", "1", "1", "1", "1", "1" >>

\* "4111111111111111 or 4111-1111-1111-1111": two matches, which both pass
CardTwice ==
  << "4", "1", "1", "1", "1", "1", "1", "1", "1", "1", "1", "1", "1", "1", "1", "1",
     " ", "o", "r", " ", "4", "1", "1", "1", "-", "1", "1", "1", "1", "-", "1", "1",
     "1", "1", "-", "1", "1", "1", "1" >>

\* "4111 1111 1111 1112": one match, which fails luhn_check
CardBadSum ==
  << "4", "1", "1", "1", " ", "1", "1", "1", "1", " ", "1", "1", "1", "1", " ", "1",
     "1", "1", "2" >>

\* "4111 1111 1111": 12 digits: no match
CardShort ==
  << "4", "1", "1", "1", " ", "1", "1", "1", "1", " ", "1", "1", "1", "1" >>

\* "1234567890123, 4111111111111111": a match that fails, then one that passes
CardAfterBad ==
  << "1", "2", "3", "4", "5", "6", "7", "8", "9", "0", "1", "2", "3", ",", " ", "4",
     "1", "1", "1", "1", "1", "1", "1", "1", "1", "1", "1", "1", "1", "1", "1" >>

\* "41111111111111114111": 20 digits: the match is the first 19, which fail
CardLong ==
  << "4", "1", "1", "1", "1", "1", "1", "1", "1", "1", "1", "1", "1", "1", "1", "1",
     "4", "1", "1", "1" >>

CardTexts == << CardPlain, CardTwice, CardBadSum, CardShort, CardAfterBad, CardLong, MsgHello >>

\* one record for each text, of two users
CardPool ==
  {Rec(<< "c", DigitChar(k) >>, IF k % 2 = 0 THEN UidU1 ELSE UidU2, NameBob, TsZulu,
       CardTexts[k]) : k \in 1..Len(CardTexts)}

CardCorpora == SeqsUpTo(CardPool, MaxMsgs)

InitCards == Calling(CardCorpora, {1})

SpecCards == InitCards /\ [][NextCaps]_vars

\* ------------------------------------------------------------------------
\* analyze on groups whose timestamps sort as text in another order than as
\* instants

\* "2024-01-01T00:45:00+02:00": 22:45 UTC of 2023-12-31
TsOffsetLater ==
  << "2", "0", "2", "4", "-", "0", "1", "-", "0", "1", "T", "0", "0", ":", "4", "5", ":",
  "0", "0", "+", "0", "2", ":", "0", "0" >>

MaxTimeline == 3

\* five timestamps for the first user, two for the second
TimelinePool ==
  {Rec(IdM1, UidU1, NameBob, ts, MsgHello) :
     ts \in {TsZulu, TsOffset, TsOffsetLater, TsGarbage, TsNoon}}
    \cup {Rec(IdM2, UidU2, NameBob, ts, MsgHello) : ts \in {TsZulu, TsOffset}}

TimelineCorpora == SeqsUpTo(TimelinePool, MaxTimeline)

InitTimeline == Calling(TimelineCorpora, {1})

SpecTimeline == InitTimeline /\ [][NextCaps]_vars

\* ------------------------------------------------------------------------
\* analyze on messages that differ in case, spacing, punctuation or accents

\* "H\u00e9llo there"
MsgHelloAccent ==
  << "H", "U+00E9", "l", "l", "o", " ", "t", "h", "e", "r", "e" >>

MaxDupMsgs == 3

\* four texts for each of two users, and the accented text for the first
DuplicatePool ==
  {Rec(IdM1, uid, NameBob, TsZulu, txt) :
     uid \in {UidU1, UidU2}, txt \in {MsgHello, MsgHelloSpaced, MsgHelloPunct, << >>}}
    \cup {Rec(IdM1, UidU1, NameBob, TsZulu, MsgHelloAccent)}

DuplicateCorpora == SeqsUpTo(DuplicatePool, MaxDupMsgs)

InitDuplicates == Calling(DuplicateCorpora, {1})

SpecDuplicates == InitDuplicates /\ [][NextCaps]_vars

\* ------------------------------------------------------------------------
\* analyze on corpora whose texts are shared by users

\* a text of each pair of users and of the last user, which the first two
\* users then send as well: the text seen last has the most users
ManySharedTexts ==
  LET last == GenRecord(MaxUsers - 1, 1)
  IN Generated(MaxUsers, 1)
       \o << [GenRecord(0, 2) EXCEPT !.message = last.message],
             [GenRecord(1, 2) EXCEPT !.message = last.message] >>

CrossUserCorpora == DuplicateCorpora \cup {ManySharedTexts}

InitCrossUser == Calling(CrossUserCorpora, {1})

SpecCrossUser == InitCrossUser /\ [][NextCaps]_vars

\* ------------------------------------------------------------------------
\* analyze on users whose messages are spaced by given gaps

\* "2024-01-DDTHH:MM:SSZ", sec seconds after the start of 2024
Stamp(sec) ==
  << "2", "0", "2", "4", "-", "0", "1", "-" >> \o TwoDigits(1 + sec \div 86400)
    \o << "T" >> \o TwoDigits((sec % 86400) \div 3600)
    \o << ":" >> \o TwoDigits((sec % 3600) \div 60)
    \o << ":" >> \o TwoDigits(sec % 60) \o << "Z" >>

\* the timestamps of messages spaced by the gaps, the first at second 0
Stamps(gaps) ==
  AsList([i \in 1..(Len(gaps) + 1) |-> Stamp(SumSeq(SubSeq(gaps, 1, i - 1)))])

Repeat(g, n) == [i \in 1..n |-> g]

\* seven equal gaps of 60 s, 0 s, 10 s, a day, 5 s and two days; gaps with a
\* coefficient of variation below, above and equal to 0.08; gaps of an hour
\* and one of two hours; six gaps
GapPatterns ==
  << Repeat(60, 7), Repeat(0, 7), Repeat(10, 7), Repeat(86400, 7), Repeat(5, 7),
     Repeat(172800, 7), Repeat(60, 6) \o << 66 >>, Repeat(60, 6) \o << 75 >>,
     << 27, 23, 27, 23, 27, 23, 27, 23 >>, Repeat(3600, 6) \o << 7200 >>,
     Repeat(60, 6) >>

\* the timestamps of each pattern; eight a minute apart with one more that
\* does not parse; seven a minute apart with one that does not parse
CadenceTimelines ==
  [i \in 1..Len(GapPatterns) |-> Stamps(GapPatterns[i])]
    \o << Stamps(Repeat(60, 7)) \o << TsGarbage >>, Stamps(Repeat(60, 6)) \o << TsGarbage >> >>

\* the messages of a user with the given timestamps
MessagesOf(uid, stamps) ==
  [i \in 1..Len(stamps) |-> Rec(<< "m" >> \o TwoDigits(i), uid, NameBob, stamps[i], MsgHello)]

\* one timeline for the first user, and one or none for the second
CadenceCorpora ==
  {AsList(MessagesOf(UidU1, CadenceTimelines[i])) : i \in 1..Len(CadenceTimelines)}
    \cup {AsList(MessagesOf(UidU2, CadenceTimelines[j]) \o MessagesOf(UidU1, CadenceTimelines[i])) :
            i, j \in 1..Len(CadenceTimelines)}

InitCadence == Calling(CadenceCorpora, {1})

SpecCadence == InitCadence /\ [][NextCaps]_vars

\* ------------------------------------------------------------------------
\* _norm on its own, and on its own result

MaxNormLen == 3

\* letters of both cases, a digit, a space, punctuation, an accented letter
\* and an ideograph
NormAlphabet == {"a", "B", "7", " ", "!", "_", "U+00E9", "U+65E5"}

NormInputs == SeqsUpTo(NormAlphabet, MaxNormLen) \cup {None}

\* the variables of analyze while another function is called
NoAnalyze ==
  /\ messages = << >>
  /\ given = << >>
  /\ clock = 1
  /\ by_user = << >>
  /\ acc = << >>
  /\ report = Unset
  /\ first = Unset
  /\ luhn = NoLuhn

InitNorm ==
  /\ NoAnalyze
  /\ pc = "norm"
  /\ norm \in {[arg |-> s] : s \in NormInputs}
  /\ cli = Unset
  /\ lookup = Unset
  /\ build = Unset

\* _norm(s)
NormCall ==
  /\ pc = "norm"
  /\ "once" \notin DOMAIN norm
  /\ norm' = [arg |-> norm.arg, once |-> _norm(norm.arg)]
  /\ UNCHANGED << messages, given, clock, pc, by_user, acc, report, first, luhn, cli, lookup, build >>

\* _norm(_norm(s))
NormAgain ==
  /\ pc = "norm"
  /\ "once" \in DOMAIN norm
  /\ "twice" \notin DOMAIN norm
  /\ norm' = [arg |-> norm.arg, once |-> norm.once, twice |-> _norm(norm.once)]
  /\ UNCHANGED << messages, given, clock, pc, by_user, acc, report, first, luhn, cli, lookup, build >>

NextNorm == NormCall \/ NormAgain

SpecNorm == InitNorm /\ [][NextNorm]_vars

\* ------------------------------------------------------------------------
\* main of the report script: fetch_all_messages, then analyze, then the
\* report written or printed

\* retries: int = 3, which main leaves at its default
Retries == 3

MaxPageLimit == 2

MaxPagesArg == 2

MaxTotal == 5

\* the "total" of the discovery response: an integer, or a value that is
\* not an integer
Totals ==
  {[int |-> FALSE, val |-> 0]} \cup {[int |-> TRUE, val |-> t] : t \in (-1)..MaxTotal}

\* total = page_limit * max_pages unless total is a positive integer;
\* pages = min((total + page_limit - 1) // page_limit, max_pages)
PagesFor(total, page_limit, max_pages) ==
  LET known == IF ~total.int \/ total.val <= 0 THEN page_limit * max_pages ELSE total.val
      needed == (known + page_limit - 1) \div page_limit
  IN IF needed < max_pages THEN needed ELSE max_pages

\* fetch_all_messages returns what it has fetched all the same
FetchReturnsPartial(c, why) ==
  [c EXCEPT !.pc = "exit", !.failed = why, !.analyzed = TRUE, !.corpus = c.items,
            !.printed = IF c.tofile THEN "notice" ELSE "report", !.file = c.tofile,
            !.exit = 0]

\* the exception leaves fetch_all_messages; main prints it to stderr and
\* returns 1
FetchRaises(c, why) ==
  [c EXCEPT !.pc = "exit", !.failed = why, !.stderr = TRUE, !.exit = 1]

\* fetch_all_messages returned: report = analyze(messages), then the report
\* written to args.output or printed, and return 0; an exception of analyze
\* is not caught
MainAfterFetch(c, raises) ==
  IF raises
  THEN [c EXCEPT !.pc = "exit", !.analyzed = TRUE, !.corpus = c.items, !.uncaught = TRUE,
                 !.exit = 1]
  ELSE [c EXCEPT !.pc = "exit", !.analyzed = TRUE, !.corpus = c.items,
                 !.printed = IF c.tofile THEN "notice" ELSE "report", !.file = c.tofile,
                 !.exit = 0]

\* while attempt < retries
AttemptsLeft(c) == c.attempt < Retries

\* the request made with skip = i, the number of the page
AttemptedAtPageNumber(c, ok, n) ==
  [c EXCEPT !.attempt = @ + 1,
            !.requests = Append(@, [skip |-> c.i, ok |-> ok, n |-> n]),
            !.items = @ + n,
            !.fetched = @ \o [k \in 1..n |-> c.i + k]]

\* attempt += 1 and client.get(url, params={"skip": skip, "limit": page_limit})
\* with skip = i * page_limit: the request either raises (ok is FALSE) or
\* answers with a batch of n items, the items skip + 1 .. skip + n of the
\* server, and items.extend(batch)
Attempted(c, ok, n) ==
  LET skip == c.i * c.limit
  IN [c EXCEPT !.attempt = @ + 1,
               !.requests = Append(@, [skip |-> skip, ok |-> ok, n |-> n]),
               !.items = @ + n,
               !.fetched = @ \o [k \in 1..n |-> skip + k]]

InitCli ==
  /\ NoAnalyze
  /\ pc = "main"
  /\ norm = Unset
  /\ lookup = Unset
  /\ build = Unset
  /\ cli \in {[pc |-> "start", limit |-> l, maxp |-> m, tofile |-> f, pages |-> 0, i |-> 0,
                attempt |-> 0, items |-> 0, failed |-> "no", analyzed |-> FALSE,
                corpus |-> 0, printed |-> "nothing", file |-> FALSE, stderr |-> FALSE,
                uncaught |-> FALSE, exit |-> -1, total |-> [int |-> FALSE, val |-> 0],
                requests |-> << >>, fetched |-> << >>] :
                  l \in 1..MaxPageLimit, m \in 0..MaxPagesArg, f \in BOOLEAN}

CliFrame ==
  UNCHANGED << messages, given, clock, pc, by_user, acc, report, first, luhn, norm, lookup, build >>

\* client.get(url, params={"limit": 1}) or r.raise_for_status() raises
DiscoveryFails ==
  /\ pc = "main"
  /\ cli.pc = "start"
  /\ cli' = FetchRaises(cli, "discovery")
  /\ CliFrame

\* the discovery request answers; with no page to fetch the loop is skipped
Discovery ==
  /\ pc = "main"
  /\ cli.pc = "start"
  /\ \E total \in Totals, raises \in BOOLEAN :
       LET pages == PagesFor(total, cli.limit, cli.maxp)
           told == [cli EXCEPT !.total = total]
       IN cli' = IF pages <= 0 THEN MainAfterFetch(told, raises)
                 ELSE [told EXCEPT !.pc = "fetch", !.pages = pages]
  /\ CliFrame

\* one attempt at the page raises: a sleep and another attempt, or the
\* exception raised again once the attempts are used up
RequestFails ==
  /\ pc = "main"
  /\ cli.pc = "fetch"
  /\ AttemptsLeft(cli)
  /\ LET tried == Attempted(cli, FALSE, 0)
     IN cli' = IF tried.attempt >= Retries THEN FetchRaises(tried, "page") ELSE tried
  /\ CliFrame

\* one attempt at the page answers with a batch of n items: a short batch
\* or the last page ends the fetch, and main goes on
RequestSucceeds ==
  /\ pc = "main"
  /\ cli.pc = "fetch"
  /\ AttemptsLeft(cli)
  /\ \E n \in 0..cli.limit, raises \in BOOLEAN :
       LET got == Attempted(cli, TRUE, n)
       IN cli' = IF n < cli.limit \/ cli.i + 1 >= cli.pages
                 THEN MainAfterFetch(got, raises)
                 ELSE [got EXCEPT !.i = @ + 1, !.attempt = 0]
  /\ CliFrame

NextCli == DiscoveryFails \/ Discovery \/ RequestFails \/ RequestSucceeds

SpecCli == InitCli /\ [][NextCli]_vars

\* ------------------------------------------------------------------------
\* app/name_index.py: norm_name and resolve_with_index

\* [a-z0-9]
IsLowerAlnum(c) == IsLower(c) \/ IsDigit(c)

\* re.sub(r"[^a-z0-9]+", " ", s): one space for each maximal run of other
\* characters
RunsToSpace(s) ==
  LET kept == SelectSeq([i \in 1..Len(s) |-> i],
                        LAMBDA i : IsLowerAlnum(s[i]) \/ i = 1 \/ IsLowerAlnum(s[i - 1]))
  IN [j \in 1..Len(kept) |-> IF IsLowerAlnum(s[kept[j]]) THEN s[kept[j]] ELSE " "]

\* str.strip(), on the characters of the model
Strip(s) ==
  LET solid == {i \in 1..Len(s) : ~IsSpace(s[i])}
  IN IF solid = {} THEN << >>
     ELSE SubSeq(s, CHOOSE i \in solid : \A j \in solid : i <= j,
                    CHOOSE i \in solid : \A j \in solid : j <= i)

norm_name(s) == Strip(RunsToSpace(AsList(Lower(_strip_accents(OrEmpty(s))))))

\* q in num2id
HasKey(num2id, q) == \E i \in 1..Len(num2id) : num2id[i].k = q

\* num2id[q]
ValueOf(num2id, q) == num2id[CHOOSE i \in 1..Len(num2id) : num2id[i].k = q].v

\* for k, v in num2id.items(): if q in k: return v; then return None
FirstContaining(q, num2id) ==
  LET hits == SelectSeq(num2id, LAMBDA e : Contains(e.k, q))
  IN IF hits = << >> THEN None ELSE hits[1].v

\* the scan of the keys alone
SubstringOnly(q, num2id) == FirstContaining(q, num2id)

\* if q in num2id: return num2id[q], else the substring fallback
ExactThenSubstring(q, num2id) ==
  IF HasKey(num2id, q) THEN ValueOf(num2id, q) ELSE FirstContaining(q, num2id)

\* index.get("num2id", {}), the mapping as its items in insertion order
Num2Id(index) == IF "num2id" \in DOMAIN index THEN index.num2id ELSE << >>

resolve_with_index(name_or_id, index) ==
  LET q == norm_name(name_or_id)
  IN IF q = << >> THEN None ELSE ExactThenSubstring(q, Num2Id(index))

\* the keys of the indices: "ann", "ann lee", "jo ann", "bo"
IndexKeys ==
  << << "a", "n", "n" >>,
     << "a", "n", "n", " ", "l", "e", "e" >>,
     << "j", "o", " ", "a", "n", "n" >>,
     << "b", "o" >> >>

\* the names looked up: None, "", "?!", "Ann", "ANN  LEE!", "Jo-Ann", "n",
\* "Zed", "B\u00e9"
LookupNames ==
  {None, << >>,
   << "?", "!" >>,
   << "A", "n", "n" >>,
   << "A", "N", "N", " ", " ", "L", "E", "E", "!" >>,
   << "J", "o", "-", "A", "n", "n" >>,
   << "n" >>,
   << "Z", "e", "d" >>,
   << "B", "U+00E9" >>}

MaxIndexLen == 3

\* the mappings of up to MaxIndexLen distinct keys, each key to an id of its
\* own, in every insertion order
Mappings ==
  {AsList([i \in 1..Len(ks) |-> [k |-> IndexKeys[ks[i]], v |-> << "i", "d", DigitChar(ks[i]) >>]]) :
     ks \in {t \in SeqsUpTo(1..Len(IndexKeys), MaxIndexLen) :
               \A i, j \in 1..Len(t) : i # j => t[i] # t[j]}}

\* an index dict with a "num2id" entry, and one without
Indices == {[num2id |-> m] : m \in Mappings} \cup {[users |-> << >>]}

InitLookup ==
  /\ NoAnalyze
  /\ pc = "resolve"
  /\ norm = Unset
  /\ cli = Unset
  /\ lookup \in {[name |-> n, index |-> x, called |-> FALSE] : n \in LookupNames, x \in Indices}
  /\ build = Unset

\* resolve_with_index(name_or_id, index)
ResolveCall ==
  /\ pc = "resolve"
  /\ ~lookup.called
  /\ lookup' = [name |-> lookup.name, index |-> lookup.index, called |-> TRUE,
                result |-> resolve_with_index(lookup.name, lookup.index)]
  /\ UNCHANGED << messages, given, clock, pc, by_user, acc, report, first, luhn, norm, cli, build >>

NextLookup == ResolveCall

SpecLookup == InitLookup /\ [][NextLookup]_vars

\* ------------------------------------------------------------------------
\* analyze on messages that name cities and the fifth of March

\* "Paris and Rome march 5"
MsgMarchBare ==
  << "P", "a", "r", "i", "s", " ", "a", "n", "d", " ", "R", "o", "m", "e", " ", "m", "a",
  "r", "c", "h", " ", "5" >>

\* "Paris then Rome on March 5th, 2024"
MsgMarchFull ==
  << "P", "a", "r", "i", "s", " ", "t", "h", "e", "n", " ", "R", "o", "m", "e", " ", "o",
  "n", " ", "M", "a", "r", "c", "h", " ", "5", "t", "h", ",", " ", "2", "0", "2", "4" >>

\* "paris rome 2024-03-05"
MsgMarchIso ==
  << "p", "a", "r", "i", "s", " ", "r", "o", "m", "e", " ", "2", "0", "2", "4", "-", "0",
  "3", "-", "0", "5" >>

\* "Tokyo march 5"
MsgMarchOneCity ==
  << "T", "o", "k", "y", "o", " ", "m", "a", "r", "c", "h", " ", "5" >>

\* the four texts for each of two users
MonthDatePool ==
  {Rec(IdM1, uid, NameBob, TsZulu, txt) :
     uid \in {UidU1, UidU2}, txt \in {MsgMarchBare, MsgMarchFull, MsgMarchIso, MsgMarchOneCity}}

MonthDateCorpora == SeqsUpTo(MonthDatePool, MaxMsgs)

InitMonthDates == Calling(MonthDateCorpora, 1..Len(Clocks))

SpecMonthDates == InitMonthDates /\ [][NextCaps]_vars

\* ------------------------------------------------------------------------
\* build_index of scripts/build_index.py over fetch_all_messages of
\* scripts/memory.py

\* retries: int = 3 of scripts/memory.py, which build_index leaves at its
\* default
MemoryRetries == 3

\* if resp.status_code in (401, 403, 429, 500, 502, 503)
RetryableStatuses == {401, 403, 429, 500, 502, 503}

\* the status codes of the responses: success, the retryable ones, and two
\* other errors, for which raise_for_status raises
Statuses == RetryableStatuses \cup {200, 400, 404}

\* the messages the server holds, in the order it pages them
ServerMessages ==
  << [id |-> << "1" >>, user_id |-> UidU1, user_name |-> NameAlexK],
     [id |-> << "2" >>, user_id |-> UidU2, user_name |-> NameBob],
     [id |-> << "3" >>, user_id |-> UidU1, user_name |-> NameAlexKim],
     [id |-> << "4" >>, user_id |-> UidHex, user_name |-> NameElodie],
     [id |-> << "5" >>, user_id |-> UidU2] >>

MaxMemoryLimit == 2

MaxMemoryPages == 3

\* the "items" of a response with status 200 to skip and limit
ServerPage(skip, limit) == Slice(ServerMessages, skip, skip + limit)

\* pages = (total + page_limit - 1) // page_limit if total else max_pages;
\* pages = min(pages, max_pages)
MemoryPages(total, page_limit, max_pages) ==
  LET needed == IF total # 0 THEN (total + page_limit - 1) \div page_limit ELSE max_pages
  IN IF needed < max_pages THEN needed ELSE max_pages

\* the for loop goes to its next page, or ends and the function returns
NextPage(b) ==
  IF b.i + 1 < b.pages THEN [b EXCEPT !.i = @ + 1, !.attempt = 0]
  ELSE [b EXCEPT !.pc = "fetched"]

\* the exception of a page that cannot be fetched leaves the function
PageRaises(b) == [b EXCEPT !.pc = "raised"]

\* the page is given up, with or without a warning: nothing is appended
PageSkipped(b) == NextPage([b EXCEPT !.skipped = Append(@, b.i)])

\* a dict after d[k] = v for every pair, in order: the keys in the order
\* they were first set, each with the value it was last given
AssignDict(pairs) ==
  LET ps == AsList(pairs)
      keys == AsList(FirstSeen(AsList([i \in 1..Len(ps) |-> ps[i].k])))
  IN AsList([p \in 1..Len(keys) |->
       LET at == {i \in 1..Len(ps) : ps[i].k = keys[p]}
       IN [k |-> keys[p], v |-> ps[CHOOSE i \in at : \A j \in at : j <= i].v]])

\* if uid and uname, if not uid or not name
Named(m) == Truthy(m, "user_id") /\ Truthy(m, "user_name")

\* latest_name[uid] = uname for every message with a user id and a name
latest_name(msgs) ==
  LET named == AsList(SelectSeq(msgs, Named))
  IN AssignDict([i \in 1..Len(named) |-> [k |-> named[i].user_id, v |-> named[i].user_name]])

\* users = [{"user_id": uid, "user_name": name} for uid, name in latest_name.items()]
UsersOf(latest) ==
  [i \in 1..Len(latest) |-> [user_id |-> latest[i].k, user_name |-> latest[i].v]]

\* build_names_index(users): num2id[norm_name(name)] = uid for every user
\* with an id and a name
build_names_index(users) ==
  LET named == AsList(SelectSeq(users, Named))
  IN [num2id |->
        AssignDict([i \in 1..Len(named) |->
                      [k |-> norm_name(named[i].user_name), v |-> named[i].user_id]])]

InitBuild ==
  /\ NoAnalyze
  /\ pc = "build"
  /\ norm = Unset
  /\ cli = Unset
  /\ lookup = Unset
  /\ build \in {[pc |-> "start", limit |-> l, maxp |-> m, pages |-> 0, i |-> 0, attempt |-> 0,
                  status |-> 0, items |-> << >>, skipped |-> << >>, answered |-> << >>,
                  warned |-> 0, users |-> << >>, index |-> [num2id |-> << >>],
                  returned |-> -1] :
                    l \in 1..MaxMemoryLimit, m \in 0..MaxMemoryPages}

BuildFrame ==
  UNCHANGED << messages, given, clock, pc, by_user, acc, report, first, luhn, norm, cli, lookup >>

\* the discovery request: total = int(r.json().get("total", 0)), or 0 when
\* the request or the conversion raises
MemoryDiscovery ==
  /\ pc = "build"
  /\ build.pc = "start"
  /\ \E total \in 0..Len(ServerMessages) :
       LET pages == MemoryPages(total, build.limit, build.maxp)
       IN build' = IF pages <= 0 THEN [build EXCEPT !.pc = "fetched"]
                   ELSE [build EXCEPT !.pc = "fetch", !.pages = pages]
  /\ BuildFrame

\* an attempt answered with a retryable status: a sleep and the next
\* attempt; after the last attempt the while loop ends and the for loop goes
\* on
PageRetryable ==
  /\ pc = "build"
  /\ build.pc = "fetch"
  /\ build.attempt < MemoryRetries
  /\ \E status \in RetryableStatuses :
       LET tried == [build EXCEPT !.attempt = @ + 1, !.status = status]
       IN build' = IF tried.attempt < MemoryRetries THEN tried ELSE PageSkipped(tried)
  /\ BuildFrame

\* an attempt answered with another error status: raise_for_status raises,
\* the warning is printed and the while loop is left
PageRefused ==
  /\ pc = "build"
  /\ build.pc = "fetch"
  /\ build.attempt < MemoryRetries
  /\ \E status \in Statuses \ (RetryableStatuses \cup {200}) :
       build' = PageSkipped([build EXCEPT !.attempt = @ + 1, !.status = status,
                                          !.warned = @ + 1])
  /\ BuildFrame

\* an attempt answered with the page: items.extend(batch), and the function
\* returns on a short batch
PageAnswers ==
  /\ pc = "build"
  /\ build.pc = "fetch"
  /\ build.attempt < MemoryRetries
  /\ LET batch == ServerPage(build.i * build.limit, build.limit)
         got == [build EXCEPT !.attempt = @ + 1, !.status = 200, !.items = @ \o batch,
                              !.answered = Append(@, build.i)]
     IN build' = IF Len(batch) < build.limit THEN [got EXCEPT !.pc = "fetched"]
                 ELSE NextPage(got)
  /\ BuildFrame

\* build_index once fetch_all_messages has returned: the latest names, the
\* users, the index built and saved, and len(users) returned
BuildIndex ==
  /\ pc = "build"
  /\ build.pc = "fetched"
  /\ LET users == AsList(UsersOf(latest_name(build.items)))
     IN build' = [build EXCEPT !.pc = "built", !.users = users,
                               !.index = build_names_index(users),
                               !.returned = Len(users)]
  /\ BuildFrame

NextBuild == MemoryDiscovery \/ PageRetryable \/ PageRefused \/ PageAnswers \/ BuildIndex

SpecBuild == InitBuild /\ [][NextBuild]_vars

\* ------------------------------------------------------------------------
\* luhn_check called on a number it accepted, with one digit raised by one

\* the number with the digit at place k raised by one
Raise(num, k) == [num EXCEPT ![k] = DigitChar(DigitVal(num[k]) + 1)]

\* the places of the digits below 9
Raisable(num) == {k \in 1..Len(num) : IsDigit(num[k]) /\ DigitVal(num[k]) < 9}

LuhnRaise ==
  /\ pc = "luhn"
  /\ luhn.called
  /\ luhn.result
  /\ "from" \notin DOMAIN luhn
  /\ \E k \in Raisable(luhn.num) :
       luhn' = [num |-> Raise(luhn.num, k), called |-> FALSE, result |-> FALSE,
                from |-> luhn.num]
  /\ UNCHANGED << messages, given, clock, pc, by_user, acc, report, first, norm, cli, lookup, build >>

NextLuhnRaise == LuhnCall \/ LuhnRaise

SpecLuhnRaise == InitLuhn /\ [][NextLuhnRaise]_vars

\* ------------------------------------------------------------------------
\* Properties

\* the run of analyze has ended, by returning or by raising
Ended == pc \in {"returned", "raised"}

\* group_by_user has run in this call
Grouped == pc \in {"detect", "returned", "raised"}

\* m.get("user_id", "") and m.get("timestamp", "") of a record
UidOf(r) == IF "user_id" \in DOMAIN r THEN r.user_id ELSE << >>

TsOf(r) == IF "timestamp" \in DOMAIN r THEN r.timestamp ELSE << >>

\* how many times the record r occurs in the list
Occurrences(r, list) == Cardinality({i \in 1..Len(list) : list[i] = r})

\* the records of the corpus with the user id uid, in the order of the corpus
OfUser(uid) == SelectSeq(messages, LAMBDA r : UidOf(r) = uid)

\* C1: for every corpus whose records carry string values for id, user_id,
\* user_name, timestamp and message, analyze returns without raising, the
\* timestamps that parse without a UTC offset included.
C1_NoRaiseOnStringRecords ==
  (\A i \in 1..Len(messages) : DOMAIN messages[i] = Fields) => pc # "raised"

\* C2: two runs of analyze on the same corpus give the same outcome, whatever
\* the wall clock reads at each run.
C2_SameReportAtAnyMoment ==
  (first # Unset /\ Ended) => first = [pc |-> pc, report |-> report]

C4_GroupsPartitionCorpus ==
  Grouped =>
    /\ \A g, h \in 1..Len(by_user) : by_user[g].uid = by_user[h].uid => g = h
    /\ \A g \in 1..Len(by_user) : \A k \in 1..Len(by_user[g].arr) :
         /\ UidOf(by_user[g].arr[k]) = by_user[g].uid
         /\ \E i \in 1..Len(messages) : messages[i] = by_user[g].arr[k]
    /\ \A i \in 1..Len(messages) : \E g \in 1..Len(by_user) :
         /\ by_user[g].uid = UidOf(messages[i])
         /\ Occurrences(messages[i], by_user[g].arr) = Occurrences(messages[i], messages)

\* C4: a record with an empty user_id and one without user_id share the
\* group keyed ""
C4_Witness ==
  /\ pc = "detect"
  /\ \E g \in 1..Len(by_user) :
       /\ by_user[g].uid = << >>
       /\ \E k \in 1..Len(by_user[g].arr) : "user_id" \notin DOMAIN by_user[g].arr[k]
       /\ \E k \in 1..Len(by_user[g].arr) : "user_id" \in DOMAIN by_user[g].arr[k]

\* C5: every group is in non-decreasing order of the raw timestamp string
\* (absent read as ""), and its records with one timestamp string are in the
\* order they have in the corpus.
C5_GroupsSortedByRawTimestamp ==
  Grouped =>
    \A g \in 1..Len(by_user) :
      /\ \A k \in 1..(Len(by_user[g].arr) - 1) :
           ~StrLess(TsOf(by_user[g].arr[k + 1]), TsOf(by_user[g].arr[k]))
      /\ \A k \in 1..Len(by_user[g].arr) :
           SelectSeq(by_user[g].arr, LAMBDA r : TsOf(r) = TsOf(by_user[g].arr[k]))
             = SelectSeq(OfUser(by_user[g].uid), LAMBDA r : TsOf(r) = TsOf(by_user[g].arr[k]))

\* C5: a group the sort has reordered and that holds two different records
\* with one timestamp string
C5_Witness ==
  /\ pc = "detect"
  /\ \E g \in 1..Len(by_user) :
       /\ by_user[g].arr # OfUser(by_user[g].uid)
       /\ \E k \in 1..(Len(by_user[g].arr) - 1) :
            /\ TsOf(by_user[g].arr[k]) = TsOf(by_user[g].arr[k + 1])
            /\ by_user[g].arr[k] # by_user[g].arr[k + 1]

\* C6: the corpus is the list that was given: the same records, in the same
\* order, with the same field values.
C6_InputUnchanged == messages = given

\* C6: analyze has returned and the sort has reordered a group
C6_Witness ==
  /\ pc = "returned"
  /\ \E g \in 1..Len(by_user) : by_user[g].arr # OfUser(by_user[g].uid)

\* the report of the empty corpus
EmptyReport ==
  [totals |->
     [messages |-> 0, users |-> 0, avg_message_length |-> 0,
      min_message_length |-> 0, max_message_length |-> 0],
   names |->
     [user_ids_with_multiple_names_count |-> 0,
      user_ids_with_multiple_names_examples |-> << >>,
      full_name_collisions_count |-> 0,
      full_name_collisions_examples |-> << >>,
      first_name_collisions_top |-> << >>],
   encoding |->
     [names_with_replacement_char_count |-> 0,
      names_with_replacement_char_examples |-> << >>,
      sample_bad_messages |-> << >>],
   timestamps |->
     [unparsable |-> 0, far_future_gt_1y |-> 0, far_past_lt_2010 |-> 0,
      out_of_order_user_count |-> 0],
   duplicates |->
     [per_user_duplicates_examples |-> << >>,
      cross_user_duplicate_texts |-> << >>,
      duplicate_message_id_count |-> 0,
      duplicate_message_id_examples |-> << >>],
   pii_samples |-> [phone_like |-> << >>, email_like |-> << >>, credit_card_like |-> << >>],
   top_words |-> << >>,
   integrity |->
     [invalid_user_id_count |-> 0,
      invalid_message_id_count |-> 0,
      missing_fields |->
        [missing_user_id |-> 0, missing_user_name |-> 0, missing_timestamp |-> 0,
         missing_message |-> 0]],
   pii_cross_user_reuse |-> [shared_phones |-> << >>, shared_emails |-> << >>],
   contradictions |-> [seat_preference_flips |-> << >>, same_day_multi_city |-> << >>],
   cadence |-> [suspicious_cadence_users |-> << >>],
   language |-> [script_shift_users |-> << >>]]

\* C7: on the empty corpus analyze does not raise, and the report it returns
\* has every count and statistic zero and every list empty.
C7_EmptyCorpusReport ==
  messages = << >> => (pc # "raised" /\ (pc = "returned" => report = EmptyReport))

\* C7: analyze has returned on the empty corpus
C7_Witness == messages = << >> /\ pc = "returned"

\* the places of the corpus whose timestamp does not parse
Unparsable ==
  {i \in 1..Len(messages) : ~ParseTimestamp(TsOf(messages[i])).ok}

\* the user_name and the normalised text of a record
NameOf(r) == IF "user_name" \in DOMAIN r THEN r.user_name ELSE << >>

TextOf(r) == norm_text(IF "message" \in DOMAIN r THEN r.message ELSE << >>)

\* C8: timestamps.unparsable is the number of records whose timestamp does
\* not parse and totals.messages counts them; each is in the group of its
\* user_id; the name detector reports the full name it shares with a record
\* of another user, the duplicate detector the text it shares with a record
\* of another user or repeats within its user, and the PII detector samples
\* it when its message holds an email or a phone number.
C8_UnparsableCountedAndKept ==
  /\ pc = "returned" =>
       /\ report.timestamps.unparsable = Cardinality(Unparsable)
       /\ report.totals.messages = Len(messages)
  /\ Grouped =>
       \A i \in Unparsable : \E g \in 1..Len(by_user) :
          /\ by_user[g].uid = UidOf(messages[i])
          /\ \E k \in 1..Len(by_user[g].arr) : by_user[g].arr[k] = messages[i]
  /\ "names" \in DOMAIN acc =>
       \A i \in Unparsable : \A j \in 1..Len(messages) :
          (/\ NameOf(messages[i]) # << >>
           /\ NameOf(messages[i]) = NameOf(messages[j])
           /\ UidOf(messages[i]) # UidOf(messages[j]))
          => \E e \in SeqRange(acc.names.full_collisions) :
                /\ e.user_name = NameOf(messages[i])
                /\ {UidOf(messages[i]), UidOf(messages[j])} \subseteq SeqRange(e.user_ids)
  /\ "duplicates" \in DOMAIN acc =>
       \A i \in Unparsable : \A j \in 1..Len(messages) :
          /\ (/\ TextOf(messages[i]) # << >>
              /\ TextOf(messages[i]) = TextOf(messages[j])
              /\ UidOf(messages[i]) # UidOf(messages[j]))
             => \E e \in SeqRange(acc.duplicates.cross_user_duplicate_texts) :
                   e.text = TextOf(messages[i]) /\ e.user_count >= 2
          /\ (/\ i # j
              /\ TextOf(messages[i]) = TextOf(messages[j])
              /\ UidOf(messages[i]) = UidOf(messages[j]))
             => \E e \in SeqRange(acc.duplicates.per_user_duplicates) :
                   /\ e.user_id = UidOf(messages[i])
                   /\ \E x \in SeqRange(e.examples) :
                        x.text = TextOf(messages[i]) /\ x.count >= 2
  /\ "pii" \in DOMAIN acc =>
       \A i \in Unparsable :
          /\ Search(Get(messages[i], "message", << >>), EmailMatchEnd)
             => \E x \in SeqRange(acc.pii.email_msgs) : x = PiiSample(messages[i])
          /\ Search(Get(messages[i], "message", << >>), PhoneMatchEnd)
             => \E x \in SeqRange(acc.pii.phone_msgs) : x = PiiSample(messages[i])

\* C8: a report that counts two unparsable records, which share a full name
\* across two users and one of which holds an email
C8_Witness ==
  /\ pc = "returned"
  /\ Cardinality(Unparsable) = 2
  /\ report.timestamps.unparsable = 2
  /\ report.names.full_name_collisions_count = 1
  /\ Len(report.pii_samples.email_like) = 1

\* C9: every finding list of the report is within its cap.
C9_ListsWithinCaps ==
  pc = "returned" =>
    /\ Len(report.names.user_ids_with_multiple_names_examples) <= 10
    /\ Len(report.names.full_name_collisions_examples) <= 10
    /\ Len(report.names.first_name_collisions_top) <= 20
    /\ Len(report.encoding.names_with_replacement_char_examples) <= 10
    /\ Len(report.encoding.sample_bad_messages) <= 50
    /\ Len(report.duplicates.per_user_duplicates_examples) <= 10
    /\ \A e \in SeqRange(report.duplicates.per_user_duplicates_examples) :
         Len(e.examples) <= 5
    /\ Len(report.duplicates.cross_user_duplicate_texts) <= 20
    /\ Len(report.duplicates.duplicate_message_id_examples) <= 20
    /\ Len(report.pii_samples.phone_like) <= 10
    /\ Len(report.pii_samples.email_like) <= 10
    /\ Len(report.pii_samples.credit_card_like) <= 5
    /\ Len(report.top_words) <= 25
    /\ Len(report.pii_cross_user_reuse.shared_phones) <= 20
    /\ Len(report.pii_cross_user_reuse.shared_emails) <= 20
    /\ Len(report.contradictions.seat_preference_flips) <= 50
    /\ Len(report.contradictions.same_day_multi_city) <= 50
    /\ Len(report.cadence.suspicious_cadence_users) <= 50
    /\ Len(report.language.script_shift_users) <= 50

\* C9: a report of a corpus with more users than the largest cap, whose
\* lists are as long as their caps
C9_Witness ==
  /\ pc = "returned"
  /\ report.totals.users > 50
  /\ report.names.user_ids_with_multiple_names_count > 10
  /\ Len(report.names.user_ids_with_multiple_names_examples) = 10
  /\ Len(report.names.first_name_collisions_top) = 20
  /\ Len(report.encoding.sample_bad_messages) = 50
  /\ Len(report.duplicates.per_user_duplicates_examples) = 10
  /\ Len(report.duplicates.cross_user_duplicate_texts) = 20
  /\ Len(report.duplicates.duplicate_message_id_examples) = 20
  /\ Len(report.pii_samples.phone_like) = 10
  /\ Len(report.pii_samples.credit_card_like) = 5
  /\ Len(report.top_words) = 25
  /\ Len(report.pii_cross_user_reuse.shared_phones) = 20
  /\ Len(report.contradictions.seat_preference_flips) = 50
  /\ Len(report.contradictions.same_day_multi_city) = 50
  /\ Len(report.cadence.suspicious_cadence_users) = 50
  /\ Len(report.language.script_shift_users) = 50

\* the digits of the input of luhn_check, the rightmost first
DigitsFromRight ==
  LET ds == SelectSeq(luhn.num, LAMBDA c : c \in {"0", "1", "2", "3", "4", "5", "6", "7", "8", "9"})
  IN [k \in 1..Len(ds) |-> Ord[ds[Len(ds) + 1 - k]] - Ord["0"]]

\* the Luhn total: every second digit from the right, the second to last
\* first, is doubled and loses 9 when it exceeds 9
StandardLuhnTotal ==
  LET Doubled(d) == IF 2 * d > 9 THEN 2 * d - 9 ELSE 2 * d
      ds == DigitsFromRight
      RECURSIVE Total(_)
      Total(k) == IF k = 0 THEN 0
                  ELSE Total(k - 1) + (IF k % 2 = 0 THEN Doubled(ds[k]) ELSE ds[k])
  IN Total(Len(ds))

\* C10: luhn_check is false for fewer than 13 digits, and for 13 digits or
\* more it is true exactly when the standard Luhn total is a multiple of 10.
C10_LuhnIsStandard ==
  luhn.called =>
    luhn.result = (Len(DigitsFromRight) >= 13 /\ StandardLuhnTotal % 10 = 0)

\* C10: luhn_check has accepted a number with an odd count of digits
C10_Witness ==
  /\ luhn.called
  /\ luhn.result
  /\ Len(DigitsFromRight) % 2 = 1

\* C11: a number luhn_check accepted is rejected once one of its digits
\* below 9, at any place, is raised by one.
C11_RaisedDigitRejected ==
  ("from" \in DOMAIN luhn /\ luhn.called) => ~luhn.result

\* C11: luhn_check has been called on the raised number, the raised digit
\* being one the checksum doubles and that was 4
C11_Witness ==
  /\ "from" \in DOMAIN luhn
  /\ luhn.called
  /\ Len(luhn.num) >= 13
  /\ \E k \in 1..Len(luhn.num) :
       /\ luhn.num[k] = "5"
       /\ luhn.from[k] = "4"
       /\ (Len(luhn.num) - k) % 2 = 1

\* the Luhn test of a string of digits, computed from its right end
PassesLuhnFromRight(ds) ==
  LET Value(k) == Ord[ds[Len(ds) + 1 - k]] - Ord["0"]
      Doubled(d) == IF 2 * d > 9 THEN 2 * d - 9 ELSE 2 * d
      RECURSIVE Total(_)
      Total(k) == IF k = 0 THEN 0
                  ELSE Total(k - 1) + (IF k % 2 = 0 THEN Doubled(Value(k)) ELSE Value(k))
  IN Total(Len(ds)) % 10 = 0

\* the message of the record holds a match of cc_re whose digits are 13 to
\* 19 and pass the Luhn test
HoldsValidCard(r) ==
  LET txt == IF "message" \in DOMAIN r THEN r.message ELSE << >>
  IN \E m \in SeqRange(FindAll(txt, CcMatchEnd)) :
        LET ds == SelectSeq(SubSeq(txt, m.from, m.to), IsDigit)
        IN Len(ds) >= 13 /\ Len(ds) <= 19 /\ PassesLuhnFromRight(ds)

\* the sample the PII block appends for a record
SampleOf(r) ==
  [id |-> IF "id" \in DOMAIN r THEN r.id ELSE None,
   user_id |-> IF "user_id" \in DOMAIN r THEN r.user_id ELSE None,
   snippet |-> IF "message" \in DOMAIN r THEN r.message ELSE << >>]

\* C12: the credit-card samples are the samples of the messages that hold a
\* match of 13 to 19 digits passing luhn_check, one for each such message in
\* the order of the corpus, and none for any other message; the report lists
\* the first five.
C12_CardSamplesAreValidMatches ==
  LET valid == SelectSeq(messages, HoldsValidCard)
  IN /\ "pii" \in DOMAIN acc =>
          /\ Len(acc.pii.cc_msgs) = Len(valid)
          /\ \A i \in 1..Len(valid) : acc.pii.cc_msgs[i] = SampleOf(valid[i])
     /\ pc = "returned" =>
          /\ Len(report.pii_samples.credit_card_like) = Len(valid)
          /\ \A i \in 1..Len(valid) :
               report.pii_samples.credit_card_like[i] = SampleOf(valid[i])

\* C12: a message with two valid matches is listed once, and one whose only
\* match fails the Luhn test is not listed
C12_Witness ==
  /\ pc = "returned"
  /\ Len(messages) = 2
  /\ messages[1].message = CardBadSum
  /\ messages[2].message = CardTwice
  /\ Len(report.pii_samples.credit_card_like) = 1

\* the instants of a group that parse, in the order of the group
InstantsOf(arr) ==
  SelectSeq([i \in 1..Len(arr) |-> ParseTimestamp(TsOf(arr[i]))], LAMBDA dt : dt.ok)

\* dt is earlier than the latest of the instants
BelowLatest(dt, instants) ==
  \E j \in 1..Len(instants) :
     /\ \A k \in 1..Len(instants) :
          instants[k].d < instants[j].d
            \/ (instants[k].d = instants[j].d /\ instants[k].s <= instants[j].s)
     /\ dt.d < instants[j].d \/ (dt.d = instants[j].d /\ dt.s < instants[j].s)

\* some instant of the walk is earlier than the maximum of those before it
FallsBack(arr) ==
  LET instants == InstantsOf(arr)
  IN \E i \in 2..Len(instants) : BelowLatest(instants[i], SubSeq(instants, 1, i - 1))

\* C13: out_of_order_user_count is the number of groups in which, walking
\* the sorted group and skipping the timestamps that do not parse, some
\* instant is earlier than the maximum instant seen before it; a group counts
\* once.
C13_OutOfOrderCountsGroups ==
  LET flagged == {g \in 1..Len(by_user) : FallsBack(by_user[g].arr)}
  IN /\ ("timestamps" \in DOMAIN acc /\ ~acc.timestamps.raised) =>
          acc.timestamps.out_of_order_users = Cardinality(flagged)
     /\ pc = "returned" =>
          report.timestamps.out_of_order_user_count = Cardinality(flagged)

\* C13: a group that falls back at its second instant and whose third is
\* later than the second but earlier than the first, next to a group in
\* order: one group counted
C13_Witness ==
  /\ pc = "returned"
  /\ Len(by_user) = 1
  /\ Len(by_user[1].arr) = 3
  /\ TsOf(by_user[1].arr[1]) = TsZulu
  /\ TsOf(by_user[1].arr[2]) = TsOffset
  /\ TsOf(by_user[1].arr[3]) = TsOffsetLater
  /\ report.timestamps.out_of_order_user_count = 1

\* the message of a record under the normalizeText transform
NormalizedOf(r) == _norm(IF "message" \in DOMAIN r THEN r.message ELSE << >>)

\* the per-user duplicates list a text of the user uid, equal to txt under
\* the transform, with a count of two or more
ListedAsDuplicate(uid, txt) ==
  \E e \in SeqRange(acc.duplicates.per_user_duplicates) :
     /\ e.user_id = uid
     /\ \E x \in SeqRange(e.examples) : _norm(x.text) = txt /\ x.count >= 2

\* C14: two messages of the same user whose texts are equal under
\* normalizeText (accents stripped, lower case, punctuation to spaces,
\* whitespace collapsed) are tallied as one text with a count of two or more
\* and reported as a per-user duplicate.
C14_SameUserTextsTalliedTogether ==
  "duplicates" \in DOMAIN acc =>
     \A g \in 1..Len(by_user) :
        \A i, j \in 1..Len(by_user[g].arr) :
           (i < j /\ NormalizedOf(by_user[g].arr[i]) = NormalizedOf(by_user[g].arr[j]))
             => ListedAsDuplicate(by_user[g].uid, NormalizedOf(by_user[g].arr[i]))

\* the user ids of the records whose message has the text txt
UsersOfText(txt) == {UidOf(messages[i]) : i \in {j \in 1..Len(messages) : TextOf(messages[j]) = txt}}

\* the non-empty texts of the corpus that more than one user id produced
TextsOfManyUsers ==
  {txt \in {TextOf(messages[i]) : i \in 1..Len(messages)} :
     txt # << >> /\ Cardinality(UsersOfText(txt)) > 1}

\* C15: cross_user_duplicate_texts holds only non-empty normalised texts
\* that more than one user id produced, each once and with its number of
\* user ids; it is in non-increasing order of that number and holds the 20
\* texts with the most users, or all of them when they are at most 20.
C15_CrossUserDuplicates ==
  "duplicates" \in DOMAIN acc =>
     LET list == acc.duplicates.cross_user_duplicate_texts
         listed == {list[i].text : i \in 1..Len(list)}
     IN /\ \A i \in 1..Len(list) :
             /\ list[i].text \in TextsOfManyUsers
             /\ list[i].user_count = Cardinality(UsersOfText(list[i].text))
        /\ \A i, j \in 1..Len(list) : i < j =>
             list[i].text # list[j].text /\ list[i].user_count >= list[j].user_count
        /\ Len(list) = IF Cardinality(TextsOfManyUsers) > 20 THEN 20
                       ELSE Cardinality(TextsOfManyUsers)
        /\ \A txt \in TextsOfManyUsers \ listed :
             \A i \in 1..Len(list) : list[i].user_count >= Cardinality(UsersOfText(txt))
        /\ pc = "returned" => report.duplicates.cross_user_duplicate_texts = list

\* C15: more than 20 shared texts, and the one seen last, which three users
\* sent, listed first
C15_Witness ==
  /\ pc = "returned"
  /\ Cardinality(TextsOfManyUsers) > 20
  /\ Len(report.duplicates.cross_user_duplicate_texts) = 20
  /\ report.duplicates.cross_user_duplicate_texts[1].user_count = 3
  /\ report.duplicates.cross_user_duplicate_texts[1].text = TextOf(messages[Len(messages)])
  /\ report.duplicates.cross_user_duplicate_texts[2].user_count = 2

\* the user ids of the records that carry the name n
IdsOfName(n) == {UidOf(messages[i]) : i \in {j \in 1..Len(messages) : NameOf(messages[j]) = n}}

\* the non-empty names that records of more than one user id carry
NamesOfManyIds ==
  {n \in {NameOf(messages[i]) : i \in 1..Len(messages)} :
     n # << >> /\ Cardinality(IdsOfName(n)) > 1}

\* C16: full_name_collisions_count is the number of distinct non-empty
\* user_name strings that records of more than one user id carry; an entry
\* lists every user id that used its name, and a name of one user id alone
\* is not counted.
C16_FullNameCollisions ==
  "names" \in DOMAIN acc =>
     LET list == acc.names.full_collisions
     IN /\ Len(list) = Cardinality(NamesOfManyIds)
        /\ \A i \in 1..Len(list) :
             /\ list[i].user_name \in NamesOfManyIds
             /\ SeqRange(list[i].user_ids) = IdsOfName(list[i].user_name)
             /\ Len(list[i].user_ids) = Cardinality(IdsOfName(list[i].user_name))
        /\ \A i, j \in 1..Len(list) : i < j => list[i].user_name # list[j].user_name
        /\ pc = "returned" =>
             /\ report.names.full_name_collisions_count = Cardinality(NamesOfManyIds)
             /\ \A i \in 1..Len(report.names.full_name_collisions_examples) :
                  report.names.full_name_collisions_examples[i] = list[i]

\* C16: a name two records of one user carry, a name one record carries and
\* a name a user and a record without user id carry: one collision, with
\* both ids
C16_Witness ==
  /\ pc = "returned"
  /\ messages = AwareList
  /\ report.names.full_name_collisions_count = 1
  /\ report.names.full_name_collisions_examples =
       << [user_name |-> NameBob, user_ids |-> << << >>, UidU2 >>] >>

\* the seconds from the first parsed instant of the group to each of its
\* parsed instants
SecondsOf(arr) ==
  LET instants == InstantsOf(arr)
      day0 == CHOOSE d \in {instants[i].d : i \in 1..Len(instants)} :
                \A i \in 1..Len(instants) : d <= instants[i].d
  IN [i \in 1..Len(instants) |-> (instants[i].d - day0) * 86400 + instants[i].s]

\* the k-th smallest of the numbers, counting repetitions
KthSmallest(nums, k) ==
  CHOOSE x \in SeqRange(nums) :
     /\ Cardinality({i \in 1..Len(nums) : nums[i] < x}) < k
     /\ Cardinality({i \in 1..Len(nums) : nums[i] <= x}) >= k

\* the gaps between the sorted instants of the group
GapsBetween(arr) ==
  LET secs == SecondsOf(arr)
  IN [i \in 1..(Len(secs) - 1) |-> KthSmallest(secs, i + 1) - KthSmallest(secs, i)]

\* the greatest number that divides every gap, 1 when all are 0
CommonUnit(gaps) ==
  LET top == CHOOSE x \in SeqRange(gaps) : \A i \in 1..Len(gaps) : gaps[i] <= x
  IN IF top = 0 THEN 1
     ELSE CHOOSE u \in {gaps[i] : i \in 1..Len(gaps)} \cup 1..60 :
            /\ u > 0
            /\ \A i \in 1..Len(gaps) : gaps[i] % u = 0
            /\ \A v \in {gaps[i] : i \in 1..Len(gaps)} \cup 1..60 :
                 (v > 0 /\ \A i \in 1..Len(gaps) : gaps[i] % v = 0) => v <= u

\* the population coefficient of variation of the gaps is below 0.08: with
\* n gaps of sum T and sum of squares Q, (n * Q - T * T) / (T * T) < 0.0064.
\* The coefficient does not change when every gap is divided by a unit.
RegularGaps(gaps) ==
  LET u == CommonUnit(gaps)
      n == Len(gaps)
      T == SumSeq([i \in 1..n |-> gaps[i] \div u])
      Q == SumSeq([i \in 1..n |-> (gaps[i] \div u) * (gaps[i] \div u)])
  IN T = 0 \/ 625 * (n * Q - T * T) < 4 * T * T

\* 10 <= mean <= 86400
MeanInRange(gaps) ==
  /\ 10 * Len(gaps) <= SumSeq(gaps)
  /\ SumSeq(gaps) <= 86400 * Len(gaps)

\* what the claim asks of a group for its user to be flagged
Cadenced(arr) ==
  /\ Len(arr) >= 8
  /\ Len(InstantsOf(arr)) >= 8
  /\ MeanInRange(GapsBetween(arr))
  /\ RegularGaps(GapsBetween(arr))

FlaggedEntries(uid) ==
  {e \in SeqRange(acc.cadence.suspicious_cadence) : e.user_id = uid}

\* C17: a user is flagged by the cadence detector exactly when their group
\* has at least 8 records, at least 8 of its timestamps parse, the mean gap
\* is from 10 to 86400 seconds and the coefficient of variation of the gaps
\* is below 0.08; equal gaps in that range give cv = 0 and a flag, identical
\* instants give no flag.
C17_CadenceFlag ==
  ("cadence" \in DOMAIN acc /\ ~acc.cadence.raised) =>
     \A g \in 1..Len(by_user) :
        LET arr == by_user[g].arr
            flagged == FlaggedEntries(by_user[g].uid)
        IN /\ Cardinality(flagged) = IF Cadenced(arr) THEN 1 ELSE 0
           /\ \A e \in flagged :
                /\ e.samples = Len(InstantsOf(arr)) - 1
                /\ (\A i \in 1..Len(GapsBetween(arr)) :
                      GapsBetween(arr)[i] = GapsBetween(arr)[1]) => e.cv = 0
           /\ pc = "returned" =>
                (flagged # {} <=>
                   \E e \in SeqRange(report.cadence.suspicious_cadence_users) :
                      e.user_id = by_user[g].uid)

\* C17: a user with eight instants a day apart is flagged with cv = 0, and a
\* user with gaps whose coefficient of variation is 0.08 is not
C17_Witness ==
  /\ pc = "returned"
  /\ Len(by_user) = 2
  /\ TsOf(by_user[1].arr[2]) = Stamp(86400)
  /\ Len(by_user[1].arr) = 8
  /\ TsOf(by_user[2].arr[2]) = Stamp(27)
  /\ Len(by_user[2].arr) = 9
  /\ Len(report.cadence.suspicious_cadence_users) = 1
  /\ report.cadence.suspicious_cadence_users[1].user_id = by_user[1].uid
  /\ report.cadence.suspicious_cadence_users[1].cv = 0

\* lower-case ASCII letters and digits in words separated by single spaces,
\* with no space at either end
PlainWords(t) ==
  /\ \A i \in 1..Len(t) :
       \/ t[i] \in {"a", "b", "c", "d", "e", "f", "g", "h", "i", "j", "k", "l", "m", "n",
                    "o", "p", "q", "r", "s", "t", "u", "v", "w", "x", "y", "z",
                    "0", "1", "2", "3", "4", "5", "6", "7", "8", "9"}
       \/ (t[i] = " " /\ 1 < i /\ i < Len(t) /\ t[i + 1] # " ")

\* C18: _norm(_norm(s)) = _norm(s) for every string s and for None, which
\* like the empty string gives the empty string; the result holds only
\* lower-case ASCII letters and digits, separated by single spaces, with no
\* space at either end.
C18_NormIdempotent ==
  /\ "once" \in DOMAIN norm =>
       /\ PlainWords(norm.once)
       /\ (norm.arg = None \/ norm.arg = << >>) => norm.once = << >>
  /\ "twice" \in DOMAIN norm => norm.twice = norm.once

\* C18: an accented letter, punctuation and an upper-case letter give two
\* words, and the same two words again
C18_Witness ==
  /\ "twice" \in DOMAIN norm
  /\ norm.arg = << "U+00E9", "!", "B" >>
  /\ norm.once = << "e", " ", "b" >>
  /\ norm.twice = << "e", " ", "b" >>

\* C19: when the discovery request fails, or a page request fails on all of
\* its retries attempts, fetch_all_messages raises, analyze is not run, no
\* report is written or printed and main returns 1; what had been fetched
\* is not analysed.
C19_FetchFailureIsFatal ==
  /\ cli.failed # "no" =>
       /\ cli.pc = "exit"
       /\ cli.exit = 1
       /\ ~cli.analyzed
       /\ cli.printed = "nothing"
       /\ ~cli.file
       /\ cli.failed = "page" => cli.attempt = 3
  /\ (cli.pc = "fetch" /\ cli.attempt > 0) => ~cli.analyzed
  /\ cli.analyzed => (cli.failed = "no" /\ cli.corpus = cli.items)

\* C19: the second page fails three times after a full first page
C19_Witness ==
  /\ cli.pc = "exit"
  /\ cli.failed = "page"
  /\ cli.i = 1
  /\ cli.items = 2
  /\ cli.attempt = 3
  /\ cli.exit = 1

\* the normalised query of the call
Query == norm_name(lookup.name)

\* the items of the mapping the call looks in
ItemsOf(index) == IF "num2id" \in DOMAIN index THEN index.num2id ELSE << >>

\* the text q occurs in the text k
Within(q, k) ==
  \E from \in 1..(Len(k) - Len(q) + 1) : SubSeq(k, from, from + Len(q) - 1) = q

C21_MonthDateKeepsItsDay ==
  "contradictions" \in DOMAIN acc =>
     \A e \in SeqRange(acc.contradictions.same_day_multi_city) :
        SubSeq(e.date, 5, 10) = << "-", "0", "3", "-", "0", "5" >>

\* C22: top_words is in non-increasing count order, and words with equal
\* counts are in ascending order of their text.
C22_TopWordsTiesAscending ==
  report # Unset =>
     \A i \in 1..Len(report.top_words) : \A j \in 1..Len(report.top_words) :
        i < j =>
           \/ report.top_words[i].count > report.top_words[j].count
           \/ /\ report.top_words[i].count = report.top_words[j].count
              /\ StrLess(report.top_words[i].word, report.top_words[j].word)

\* the counted words of the corpus, in the order the loop meets them
WordsMet == Concat([i \in 1..Len(messages) |-> CountedWords(messages[i])])

TimesMet(met, w) == Cardinality({k \in 1..Len(met) : met[k] = w})

FirstMet(met, w) == CHOOSE k \in 1..Len(met) : met[k] = w /\ \A l \in 1..(k - 1) : met[l] # w

\* C22 (as the code has it): top_words holds the 25 most frequent counted
\* words, or all of them when there are fewer, each with the number of times
\* it occurs, in non-increasing count order, and words with equal counts are
\* in the order in which the corpus first has them.
C22_TopWordsTiesFirstSeen ==
  report # Unset =>
     LET tw == report.top_words
         met == AsList(WordsMet)
         listed == {tw[i].word : i \in 1..Len(tw)}
         distinct == Cardinality(SeqRange(met))
     IN /\ Len(tw) = IF distinct < 25 THEN distinct ELSE 25
        /\ \A i \in 1..Len(tw) :
              tw[i].word \in SeqRange(met) /\ tw[i].count = TimesMet(met, tw[i].word)
        /\ \A i \in 1..(Len(tw) - 1) :
              \/ tw[i].count > tw[i + 1].count
              \/ /\ tw[i].count = tw[i + 1].count
                 /\ FirstMet(met, tw[i].word) < FirstMet(met, tw[i + 1].word)
        /\ \A w \in SeqRange(met) \ listed :
              TimesMet(met, w) <= tw[Len(tw)].count

\* C22: two words of equal count are listed with the later one in the
\* alphabet first, as the corpus has them, and a word of a larger count
\* leads the list
C22_Witness ==
  /\ report # Unset
  /\ Len(report.top_words) >= 3
  /\ report.top_words[1].count > report.top_words[2].count
  /\ \E i \in 1..(Len(report.top_words) - 1) :
        /\ report.top_words[i].count = report.top_words[i + 1].count
        /\ StrLess(report.top_words[i + 1].word, report.top_words[i].word)

\* the number of pages the loop is to run over: the total of the discovery
\* response when it is a positive integer, else page_limit * max_pages,
\* divided by page_limit and rounded up, and at most max_pages
PagesDue ==
  LET known == IF cli.total.int /\ cli.total.val > 0 THEN cli.total.val
               ELSE cli.limit * cli.maxp
      ceil == CHOOSE k \in 0..known :
                k * cli.limit >= known /\ (k > 0 => (k - 1) * cli.limit < known)
  IN IF ceil < cli.maxp THEN ceil ELSE cli.maxp

\* the items of the requests that answered, in the order of the requests
Answered(req) ==
  Concat([k \in 1..Len(req) |->
            IF req[k].ok THEN [j \in 1..req[k].n |-> req[k].skip + j] ELSE << >>])

\* C23: whatever attempts fail and succeed, a page is requested at most
\* retries times and only while none of its requests has answered; the
\* pages are requested in increasing skip order, each after a full batch of
\* the page before; the items fetched are those of the requests that
\* answered, each page once, and a failed request adds none; the fetch ends
\* at the first batch shorter than page_limit or with the last of the
\* min(ceil(total / page_limit), max_pages) pages, or by the exception of a
\* page that failed retries times.
C23_FetchLoop ==
  LET req == cli.requests
      last == Len(req)
      of(s) == {k \in 1..last : req[k].skip = s}
  IN /\ cli.fetched = Answered(req)
     /\ Len(cli.fetched) = cli.items
     /\ \A k \in 1..last :
           /\ Cardinality(of(req[k].skip)) <= Retries
           /\ \E i \in 0..(PagesDue - 1) : req[k].skip = i * cli.limit
           /\ ~req[k].ok => req[k].n = 0
           /\ req[k].ok => /\ req[k].n <= cli.limit
                           /\ \A l \in of(req[k].skip) : l <= k
                           /\ k < last => /\ req[k].n = cli.limit
                                           /\ req[k + 1].skip = req[k].skip + cli.limit
           /\ (k < last /\ ~req[k].ok) => req[k + 1].skip = req[k].skip
           /\ k = 1 => req[k].skip = 0
     /\ (last > 0 /\ req[last].ok /\
           (req[last].n < cli.limit \/ req[last].skip = (PagesDue - 1) * cli.limit))
          => (cli.pc = "exit" /\ cli.failed = "no")
     /\ (cli.pc = "exit" /\ cli.failed = "no") =>
           IF PagesDue <= 0 THEN last = 0
           ELSE /\ last > 0
                /\ req[last].ok
                /\ \/ req[last].n < cli.limit
                   \/ req[last].skip = (PagesDue - 1) * cli.limit
     /\ (cli.pc = "exit" /\ cli.failed = "page") =>
           /\ last >= Retries
           /\ \A k \in (last - Retries + 1)..last : ~req[k].ok /\ req[k].skip = req[last].skip
     /\ cli.failed = "discovery" => last = 0

\* C23: with page_limit 2, the first page answers in full at its third
\* attempt and the second page answers with one item at its second attempt
C23_Witness ==
  /\ cli.pc = "exit"
  /\ cli.failed = "no"
  /\ cli.limit = 2
  /\ Len(cli.requests) = 5
  /\ ~cli.requests[1].ok /\ ~cli.requests[2].ok /\ cli.requests[3].ok
  /\ ~cli.requests[4].ok /\ cli.requests[5].ok
  /\ cli.requests[5].skip = 2
  /\ cli.fetched = << 1, 2, 3 >>

\* the messages of the server on the pages whose request answered, in the
\* order of the pages
OnAnswered ==
  Concat([p \in 1..Len(build.answered) |->
            Slice(ServerMessages, build.answered[p] * build.limit,
                  (build.answered[p] + 1) * build.limit)])

\* the last response was an error that ends the attempts at its page: a
\* retryable status at the last attempt, or another error status
GaveUp ==
  /\ build.status \in Statuses \ {200}
  /\ ~(build.pc = "fetch" /\ build.attempt > 0)

\* C24: a page whose attempts all get a retryable status, or whose response
\* has another error status, raises nothing: the page is skipped, the loop
\* is at the next page (or over, after the last page), the items are those
\* of the answered pages alone, and build_index builds its users and its
\* index from these: a user named only on skipped pages is not in them.
C24_FailedPageIsSkipped ==
  build # Unset =>
     /\ build.pc # "raised"
     /\ build.items = OnAnswered
     /\ \A p \in SeqRange(build.skipped) :
           /\ p \notin SeqRange(build.answered)
           /\ \A m \in SeqRange(ServerPage(p * build.limit, build.limit)) :
                 m \notin SeqRange(build.items)
     /\ (build.pc = "fetch" /\ build.attempt > 0 /\ build.status # 0) =>
           (build.status \in RetryableStatuses /\ build.attempt < MemoryRetries)
     /\ GaveUp =>
           /\ build.skipped # << >>
           /\ build.pc = "fetch" =>
                 (build.attempt = 0 /\ build.skipped[Len(build.skipped)] = build.i - 1)
           /\ build.pc # "fetch" =>
                 (build.i = build.pages - 1 /\ build.skipped[Len(build.skipped)] = build.i)
           /\ build.status \in RetryableStatuses =>
                 (build.pc = "fetch" \/ build.attempt = MemoryRetries)
     /\ build.pc = "built" =>
           /\ build.returned = Len(build.users)
           /\ \A u \in SeqRange(build.users) :
                 \E k \in 1..Len(OnAnswered) :
                    /\ Named(OnAnswered[k])
                    /\ OnAnswered[k].user_id = u.user_id
                    /\ OnAnswered[k].user_name = u.user_name
                    /\ \A l \in (k + 1)..Len(OnAnswered) :
                          ~(Named(OnAnswered[l]) /\ OnAnswered[l].user_id = u.user_id)
           /\ \A m \in SeqRange(OnAnswered) :
                 Named(m) => \E u \in SeqRange(build.users) : u.user_id = m.user_id
           /\ \A e \in SeqRange(build.index.num2id) :
                 \E u \in SeqRange(build.users) :
                    e.k = norm_name(u.user_name) /\ e.v = u.user_id

\* C24: with page_limit 1 the first two pages are skipped, one of them with
\* a warning, the third answers, and the index built holds the one user of
\* the third message
C24_Witness ==
  /\ build # Unset
  /\ build.pc = "built"
  /\ build.limit = 1
  /\ build.skipped = << 0, 1 >>
  /\ build.warned = 1
  /\ build.answered = << 2 >>
  /\ build.returned = 1
  /\ build.users = << [user_id |-> UidU1, user_name |-> NameAlexKim] >>
  /\ Len(build.index.num2id) = 1

\* the places of the corpus whose record has no id
WithoutId == {i \in 1..Len(messages) : "id" \notin DOMAIN messages[i]}

\* the places of the corpus whose record has the same id as a record before
IdSeenBefore ==
  {i \in 1..Len(messages) \ WithoutId :
     \E j \in (1..(i - 1)) \ WithoutId : messages[j].id = messages[i].id}

\* C25: with two or more records without an id, "None" is among the
\* duplicate message ids and the count is at least 1; with every id present
\* and no id twice, the count is 0 and there are no examples.
C25_IdlessRecordsShareNone ==
  report # Unset =>
     LET count == report.duplicates.duplicate_message_id_count
         examples == report.duplicates.duplicate_message_id_examples
     IN /\ Cardinality(WithoutId) >= 2 =>
             (count >= 1 /\ << "N", "o", "n", "e" >> \in SeqRange(examples))
        /\ (WithoutId = {} /\ IdSeenBefore = {}) => (count = 0 /\ examples = << >>)
        /\ (Cardinality(WithoutId) < 2 /\ \A i \in 1..Len(messages) :
               Get(messages[i], "id", << >>) # << "N", "o", "n", "e" >>) =>
             << "N", "o", "n", "e" >> \notin SeqRange(examples)

\* C25: two different records without an id, and "None" the one duplicate
\* id reported
C25_Witness ==
  /\ report # Unset
  /\ Cardinality(WithoutId) = 2
  /\ Len(messages) = 2
  /\ messages[1] # messages[2]
  /\ report.duplicates.duplicate_message_id_count = 1
  /\ report.duplicates.duplicate_message_id_examples = << << "N", "o", "n", "e" >> >>
====
